---- MODULE Spec2Model ----
(***************************************************************************)
(* A model of nbtmodify's tag codec (core.hpp) and region container        *)
(* (region.hpp), as found in src/include/nbtmodify/region.hpp.             *)
(*                                                                         *)
(* Bytes are integers 0..255.  A multi-byte number is the sequence of its  *)
(* bytes, most significant first, so that 64-bit values and bit patterns   *)
(* of floats need no wide integers.  A stream is the sequence of bytes     *)
(* still to be read (istream) or written so far (ostream).                 *)
(*                                                                         *)
(* An environment e = [host, probe, junk] fixes what the C++ leaves open:  *)
(*   host  : the byte order of the machine, "little" or "big";             *)
(*   probe : what a call of internal::is_little_endian() does.  Its body   *)
(*           is `return is_little_endian();`: unbounded recursion with no  *)
(*           side effect, undefined behaviour.  A build either never       *)
(*           returns from it, the self-call being a jump ("loops") or a    *)
(*           call that takes stack until there is none ("overflows"), or,  *)
(*           with the recursion optimised away, returns an arbitrary bool  *)
(*           ("true", "false");                                            *)
(*   junk  : the value of every byte read from memory that was never       *)
(*           written (the byte after a one-byte short_t, a Number that     *)
(*           istream::read left untouched).                                *)
(*                                                                         *)
(* The outcome of a call is st = "ok" (returned), "error" (a C++           *)
(* exception left the call), "abort" (std::terminate or memory corruption) *)
(* or "hang" (the call is inside is_little_endian).  Two exceptions have   *)
(* an outcome of their own, "unsupported" (the std::runtime_error          *)
(* "Unsupported compression type with ordinal n" of region.hpp) and        *)
(* "bad_variant_access" (thrown by std::get).                              *)
(***************************************************************************)
EXTENDS Integers, Sequences, FiniteSets, TLC

VARIABLES
    host, probe, junk,  \* the environment, fixed for a run
    tag,                \* the tag given to the encoder, or behind a crafted wire
    str,                \* the string given to writestr
    ix,                 \* which malformed wire was crafted (0: none)
    wire,               \* the bytes of the stream
    origin,             \* where wire comes from
    pc,                 \* where the caller is
    res,                \* the outcome of the last call
    calls,              \* self-calls of is_little_endian so far
    chunk_tags,         \* the 1024 tags given to write_region_file
    chunk_compression,  \* the scheme given to write_region_file
    file,               \* the bytes of the region file
    patch,              \* the scheme byte set in the file by hand, if any
    obj,                \* the tag the caller holds and calls accessors on
    cache,              \* the entries of a region cache, in the order inserted
    assigned            \* the index insert_or_lookup returned for each on insertion

vars == <<host, probe, junk, tag, str, ix, wire, origin, pc, res, calls,
          chunk_tags, chunk_compression, file, patch, obj, cache, assigned>>

-----------------------------------------------------------------------------
(* Bounds of the model *)

\* Bytes of memory one allocation can get (std::bad_alloc beyond it); small,
\* so that a list whose length the decoder takes from stray bytes is
\* either refused or short enough to be built.
MaxAllocBytes == 4096
\* The frames of is_little_endian the stack has room for; a build that
\* turns the self-call into a jump counts its turns modulo MaxCalls + 1.
MaxCalls == 2

-----------------------------------------------------------------------------
(* enum Tag *)

TAG_END == 0
TAG_BYTE == 1
TAG_SHORT == 2
TAG_INT == 3
TAG_LONG == 4
TAG_FLOAT == 5
TAG_DOUBLE == 6
TAG_BYTEARRAY == 7
TAG_STRING == 8
TAG_ARRAY == 9
TAG_COMPOUND == 10
TAG_INTARRAY == 11
TAG_LONGARRAY == 12

\* sizeof(NBTTag): Tag (4, padded to 8) + std::string (32) + DataType (40).
SizeofNBTTag == 80
\* Capacity of the in-object buffer of an empty std::string (libstdc++).
SsoCapacity == 15

-----------------------------------------------------------------------------
(* Byte sequences *)

Reverse(s) == [i \in 1..Len(s) |-> s[Len(s) + 1 - i]]

Min(a, b) == IF a < b THEN a ELSE b

\* The bytes of s after its first n.
Drop(s, n) == IF n >= Len(s) THEN <<>> ELSE SubSeq(s, n + 1, Len(s))

\* What an n-byte buffer holds after istream::read(buf, n) on s: the bytes
\* the stream had, then what the buffer held before (never written: junk).
Fill(s, n, j) == [i \in 1..n |-> IF i <= Len(s) THEN s[i] ELSE j]

\* The value (most significant byte first) of the number whose bytes in
\* memory are m, and back.
FromMemory(m, h) == IF h = "little" THEN Reverse(m) ELSE m
ToMemory(v, h) == IF h = "little" THEN Reverse(v) ELSE v

\* __builtin_bswap32 / __builtin_bswap64 on a value.
Bswap(v) == Reverse(v)

\* The 0x00 / 0xFF that sign-extends an 8-bit value.
SignByte(b) == IF b >= 128 THEN 255 ELSE 0

\* (short_t)__builtin_bswap16(x) for x of type short_t, which is int8_t:
\* x is sign-extended to 16 bits, its two bytes are swapped, and the
\* conversion back to int8_t keeps the low byte, the former sign byte.
Bswap16AsShort(b) == SignByte(b)

\* An int8_t as a (signed) integer.
Int8(b) == IF b >= 128 THEN b - 256 ELSE b

\* The 4 bytes of 0 <= n < 2^31, and the number a 4-byte value < 2^31 is.
U32(n) == <<(n \div 16777216) % 256, (n \div 65536) % 256, (n \div 256) % 256, n % 256>>
BE16(n) == <<(n \div 256) % 256, n % 256>>
Nat31(v) == ((v[1] * 256 + v[2]) * 256 + v[3]) * 256 + v[4]

\* (short_t)string.size(): the low byte of the size.
SizeAsShort(n) == n % 256

-----------------------------------------------------------------------------
(* struct NBTTag.  alt names the alternative the std::variant value holds:  *)
(* "tags" (vector<NBTTag>), "bytes", "ints", "longs" (typed vectors),      *)
(* "char", "short", "int", "long", "float", "double", "string".            *)
(* Numbers are byte sequences, strings are sequences of character codes,   *)
(* typed vectors are sequences of numbers, "tags" is a sequence of tags.   *)

NBTTag(type, name, alt, value) ==
    [type |-> type, name |-> name, alt |-> alt, value |-> value]

\* NBTTag(): the variant holds its first alternative, an empty vector<NBTTag>.
DefaultTag == NBTTag(TAG_END, <<>>, "tags", <<>>)

-----------------------------------------------------------------------------
(* internal::is_little_endian and the writers.  A writer takes the state   *)
(* of the ostream, w = [st, out], and returns it; once st is not "ok" the  *)
(* call has left the normal path and nothing more is written.              *)

\* bool is_little_endian() { return is_little_endian(); }
\* "loops", "overflows": the call never returns; otherwise the bool the
\* build returns.
is_little_endian(e) == e.probe

Returns(e) == is_little_endian(e) \in {"true", "false"}

OStream == [st |-> "ok", out |-> <<>>]

Put(w, bs) == [w EXCEPT !.out = @ \o bs]

writeb(w, num) ==
    IF w.st # "ok" THEN w ELSE Put(w, <<num>>)

\* num is a short_t, one byte wide; bytes.write((char*)&num, 2) writes it
\* and the byte that follows it in memory.
writes(w, num, e) ==
    IF w.st # "ok" THEN w
    ELSE IF ~Returns(e) THEN [w EXCEPT !.st = "hang"]
    ELSE LET n == IF is_little_endian(e) = "true" THEN Bswap16AsShort(num) ELSE num
         IN  Put(w, <<n, e.junk>>)

\* writei, writel, writef, writed: num is the value, 4 or 8 bytes.
writei(w, num, e) ==
    IF w.st # "ok" THEN w
    ELSE IF ~Returns(e) THEN [w EXCEPT !.st = "hang"]
    ELSE LET n == IF is_little_endian(e) = "true" THEN Bswap(num) ELSE num
         IN  Put(w, ToMemory(n, e.host))

writel(w, num, e) == writei(w, num, e)

writef(w, num, e) == writei(w, num, e)

writed(w, num, e) == writei(w, num, e)

writestr(w, string, e) ==
    LET name_length == SizeAsShort(Len(string))
        w1 == writes(w, name_length, e)
    IN  IF w1.st # "ok" THEN w1 ELSE Put(w1, string)

\* std::get<T>(value) on a variant that holds another alternative throws
\* std::bad_variant_access; `throw;` with no exception in flight calls
\* std::terminate.
BadVariant(w) == IF w.st # "ok" THEN w ELSE [w EXCEPT !.st = "error"]
Terminate(w) == IF w.st # "ok" THEN w ELSE [w EXCEPT !.st = "abort"]

RECURSIVE WriteEach(_, _, _, _)
\* for (x : real_value) write(stream, x), write one of writeb/writei/writel
WriteEach(w, xs, size, e) ==
    IF xs = <<>> \/ w.st # "ok" THEN w
    ELSE WriteEach(IF size = 1 THEN writeb(w, Head(xs)[1]) ELSE writei(w, Head(xs), e),
                   Tail(xs), size, e)

\* byte_t tag_byte = TAG_END; if (size > 0) tag_byte = real_value[0].type;
\* the only element kind a list has: NBTTag keeps none.
ElementKind(t) == IF Len(t.value) > 0 THEN t.value[1].type ELSE TAG_END

RECURSIVE to_nbt(_, _, _)
RECURSIVE to_nbt_elements(_, _, _, _)
RECURSIVE to_nbt_children(_, _, _)

\* The loop over the elements of a list without its test of the kind:
\* for (tag : real_value) tag.to_nbt(stream);
RECURSIVE to_nbt_elements_unchecked(_, _, _, _)
to_nbt_elements_unchecked(w, ts, tag_byte, e) ==
    IF ts = <<>> \/ w.st # "ok" THEN w
    ELSE to_nbt_elements_unchecked(to_nbt(w, Head(ts), e), Tail(ts), tag_byte, e)

\* for (tag : real_value) { if (tag.type != tag_byte) throw; tag.to_nbt(stream); }
to_nbt_elements(w, ts, tag_byte, e) ==
    IF ts = <<>> \/ w.st # "ok" THEN w
    ELSE IF Head(ts).type # tag_byte THEN Terminate(w)
    ELSE to_nbt_elements(to_nbt(w, Head(ts), e), Tail(ts), tag_byte, e)

\* for (tag : real_value) tag.to_nbt(stream);
to_nbt_children(w, ts, e) ==
    IF ts = <<>> \/ w.st # "ok" THEN w
    ELSE to_nbt_children(to_nbt(w, Head(ts), e), Tail(ts), e)

\* void NBTTag::to_nbt(std::ostream& stream) const
to_nbt(w, t, e) ==
    LET w1 == writeb(w, t.type)
        w2 == writestr(w1, t.name, e)
    IN  CASE t.type = TAG_BYTE ->
               IF t.alt = "char" THEN writeb(w2, t.value[1]) ELSE BadVariant(w2)
          [] t.type = TAG_SHORT ->
               IF t.alt = "short" THEN writes(w2, t.value[1], e) ELSE BadVariant(w2)
          [] t.type = TAG_INT ->
               IF t.alt = "int" THEN writei(w2, t.value, e) ELSE BadVariant(w2)
          [] t.type = TAG_LONG ->
               IF t.alt = "long" THEN writel(w2, t.value, e) ELSE BadVariant(w2)
          [] t.type = TAG_FLOAT ->
               IF t.alt = "float" THEN writef(w2, t.value, e) ELSE BadVariant(w2)
          [] t.type = TAG_DOUBLE ->
               IF t.alt = "double" THEN writed(w2, t.value, e) ELSE BadVariant(w2)
          [] t.type = TAG_STRING ->
               IF t.alt = "string" THEN writestr(w2, t.value, e) ELSE BadVariant(w2)
          [] t.type = TAG_BYTEARRAY ->
               IF t.alt = "bytes"
               THEN WriteEach(writei(w2, U32(Len(t.value)), e), t.value, 1, e)
               ELSE BadVariant(w2)
          [] t.type = TAG_INTARRAY ->
               IF t.alt = "ints"
               THEN WriteEach(writei(w2, U32(Len(t.value)), e), t.value, 4, e)
               ELSE BadVariant(w2)
          [] t.type = TAG_LONGARRAY ->
               IF t.alt = "longs"
               THEN WriteEach(writei(w2, U32(Len(t.value)), e), t.value, 8, e)
               ELSE BadVariant(w2)
          [] t.type = TAG_ARRAY ->
               IF t.alt = "tags"
               THEN to_nbt_elements(writei(writeb(w2, ElementKind(t)), U32(Len(t.value)), e),
                                    t.value, ElementKind(t), e)
               ELSE BadVariant(w2)
          [] t.type = TAG_COMPOUND ->
               IF t.alt = "tags"
               THEN writeb(to_nbt_children(w2, t.value, e), TAG_END)
               ELSE BadVariant(w2)
          [] OTHER -> Terminate(w2)

-----------------------------------------------------------------------------
(* The encoder that returns a vector of bytes.  It asks no host for its    *)
(* byte order: get_highest_byte(x & get_mask(k)) is byte k of x, and a     *)
(* number is pushed byte by byte from the highest k down.  v = [st, out]   *)
(* is the vector so far, as w is for a stream.                             *)

\* {(byte_t)((name_length & get_mask(1)) >> 8), (byte_t)(name_length & get_mask(0))}
\* for short_t name_length = (short_t)n: the sign byte of the low byte of
\* n, then that byte.
LengthBytes(n) == <<SignByte(SizeAsShort(n)), SizeAsShort(n)>>

\* nbt.push_back(type); the two bytes of the name's length; the name
Header(t) == <<t.type>> \o LengthBytes(Len(t.name)) \o t.name

RECURSIVE to_nbt_vector(_)
RECURSIVE to_nbt_vector_elements(_, _, _)
RECURSIVE to_nbt_vector_children(_, _)

\* inner_nbt = real_value[i].to_nbt(); the exception of an element leaves
\* the encoder of the list as well
Inner(v, inner, from) ==
    IF inner.st # "ok" THEN [v EXCEPT !.st = inner.st]
    ELSE Put(v, Drop(inner.out, from))

\* for (i ...) { if (real_value[i].type != tag_byte) throw;
\*   nbt.insert(nbt.end(), inner_nbt.begin() + 3 + real_value[i].name.size(), inner_nbt.end()); }
to_nbt_vector_elements(v, ts, tag_byte) ==
    IF ts = <<>> \/ v.st # "ok" THEN v
    ELSE IF Head(ts).type # tag_byte THEN Terminate(v)
    ELSE to_nbt_vector_elements(Inner(v, to_nbt_vector(Head(ts)), 3 + Len(Head(ts).name)),
                                Tail(ts), tag_byte)

\* for (i ...) nbt.insert(nbt.end(), inner_nbt.begin(), inner_nbt.end());
to_nbt_vector_children(v, ts) ==
    IF ts = <<>> \/ v.st # "ok" THEN v
    ELSE to_nbt_vector_children(Inner(v, to_nbt_vector(Head(ts)), 0), Tail(ts))

\* The typed arrays: std::get<std::vector<NBTTag>>(value), the size, and
\* the payload of every element, which must be of the kind `of`.
to_nbt_vector_array(v, t, of) ==
    IF t.alt = "tags"
    THEN to_nbt_vector_elements(Put(v, U32(Len(t.value))), t.value, of)
    ELSE BadVariant(v)

\* std::vector<byte_t> NBTTag::to_nbt() const
to_nbt_vector(t) ==
    LET v == Put(OStream, Header(t))
    IN  CASE t.type = TAG_BYTE ->
               IF t.alt = "char" THEN Put(v, <<t.value[1]>>) ELSE BadVariant(v)
          [] t.type = TAG_SHORT ->
               IF t.alt = "short" THEN Put(v, <<SignByte(t.value[1]), t.value[1]>>)
               ELSE BadVariant(v)
          [] t.type = TAG_INT ->
               IF t.alt = "int" THEN Put(v, t.value) ELSE BadVariant(v)
          [] t.type = TAG_LONG ->
               IF t.alt = "long" THEN Put(v, t.value) ELSE BadVariant(v)
          [] t.type = TAG_FLOAT ->
               IF t.alt = "float" THEN Put(v, t.value) ELSE BadVariant(v)
          [] t.type = TAG_DOUBLE ->
               IF t.alt = "double" THEN Put(v, t.value) ELSE BadVariant(v)
          [] t.type = TAG_STRING ->
               IF t.alt = "string" THEN Put(v, LengthBytes(Len(t.value)) \o t.value)
               ELSE BadVariant(v)
          [] t.type = TAG_BYTEARRAY -> to_nbt_vector_array(v, t, TAG_BYTE)
          [] t.type = TAG_INTARRAY -> to_nbt_vector_array(v, t, TAG_INT)
          [] t.type = TAG_LONGARRAY -> to_nbt_vector_array(v, t, TAG_LONG)
          [] t.type = TAG_ARRAY ->
               IF t.alt = "tags"
               THEN to_nbt_vector_elements(Put(v, <<ElementKind(t)>> \o U32(Len(t.value))),
                                           t.value, ElementKind(t))
               ELSE BadVariant(v)
          [] t.type = TAG_COMPOUND ->
               IF t.alt = "tags"
               THEN Put(to_nbt_vector_children(v, t.value), <<0>>)
               ELSE BadVariant(v)
          [] OTHER -> Terminate(v)

-----------------------------------------------------------------------------
(* The readers.  The istream is the sequence s of bytes still unread.  A   *)
(* read that finds too few bytes takes what there is, sets failbit and     *)
(* returns normally (no exceptions are enabled on the stream); every later *)
(* read then reads nothing, as on an exhausted stream.  A reader returns   *)
(* [st, rest, num]: the outcome, the stream after it, the value read.      *)

ScalarSize(code) ==
    CASE code = TAG_BYTE -> 1
      [] code = TAG_SHORT -> 2
      [] code = TAG_INT -> 4
      [] code = TAG_LONG -> 8
      [] code = TAG_FLOAT -> 4
      [] code = TAG_DOUBLE -> 8

\* Number internal::read(std::istream& bytes, Tag code)
\* `Number ret` is not initialised: the bytes the stream did not deliver
\* are junk.  TAG_SHORT reads 2 bytes but ret.s is one byte wide, the
\* first; TAG_DOUBLE compares (==) where it should assign, so it never swaps.
read(s, code, e) ==
    LET n == ScalarSize(code)
        mem == Fill(s, n, e.junk)
        rest == Drop(s, n)
        lt == is_little_endian(e)
    IN  CASE code = TAG_BYTE -> [st |-> "ok", rest |-> rest, num |-> mem]
          [] code \in {TAG_SHORT, TAG_INT, TAG_LONG, TAG_FLOAT, TAG_DOUBLE} /\ ~Returns(e) ->
               [st |-> "hang", rest |-> rest, num |-> <<>>]
          [] code = TAG_SHORT /\ Returns(e) ->
               [st |-> "ok", rest |-> rest,
                num |-> <<IF lt = "true" THEN Bswap16AsShort(mem[1]) ELSE mem[1]>>]
          [] code \in {TAG_INT, TAG_LONG, TAG_FLOAT} /\ Returns(e) ->
               [st |-> "ok", rest |-> rest,
                num |-> IF lt = "true" THEN Bswap(FromMemory(mem, e.host))
                                       ELSE FromMemory(mem, e.host)]
          [] code = TAG_DOUBLE /\ Returns(e) ->
               [st |-> "ok", rest |-> rest, num |-> FromMemory(mem, e.host)]

\* std::string internal::read_string(std::istream& bytes)
\* ret.append("\0") appends the empty C string, so ret stays empty and the
\* string returned has no characters.  bytes.read(ret.data(), len) still
\* takes len bytes off the stream, into the buffer of the empty string; a
\* negative len sets failbit.  Returns [st, rest, str].
read_string(s, e) ==
    LET r == read(s, TAG_SHORT, e)
        len == Int8(r.num[1])
    IN  IF r.st # "ok" THEN [st |-> r.st, rest |-> r.rest, str |-> <<>>]
        ELSE IF len < 0 THEN [st |-> "ok", rest |-> <<>>, str |-> <<>>]
        ELSE IF len > SsoCapacity THEN [st |-> "abort", rest |-> Drop(r.rest, len), str |-> <<>>]
        ELSE [st |-> "ok", rest |-> Drop(r.rest, len), str |-> <<>>]

\* std::vector<T> out_values(length) for a signed or unsigned 32-bit length
\* given by its 4 bytes: a length of 2^31 or more (negative as int_t) or
\* more memory than there is makes the constructor throw.
CanAllocate(length, elemSize) ==
    /\ length[1] < 128
    /\ Nat31(length) <= MaxAllocBytes \div elemSize

\* The stream after bytes.read(buf, n * size).
Skip(s, n, size) == IF n >= Len(s) THEN <<>> ELSE Drop(s, n * size)

-----------------------------------------------------------------------------
(* NBTTag::from_nbt(std::istream&, bool suppress_name, optional<byte_t>).  *)
(* type_override is <<>> (no value) or <<k>>.  The result is               *)
(* [st, rest, tag]; tag is meaningful only when st = "ok".                 *)

\* seen lists the kinds the switch (ret.type) of this call and of the calls
\* it made was entered with, in order: a history of the call, not a value
\* the program holds.
Failed(st, rest, seen) == [st |-> st, rest |-> rest, tag |-> DefaultTag, seen |-> seen]

Returned(rest, t, seen) == [st |-> "ok", rest |-> rest, tag |-> t, seen |-> seen]

\* The variant alternative a scalar of kind `type` is stored as.
ScalarAlt(type) ==
    CASE type = TAG_BYTE -> "char"
      [] type = TAG_SHORT -> "short"
      [] type = TAG_INT -> "int"
      [] type = TAG_LONG -> "long"
      [] type = TAG_FLOAT -> "float"
      [] type = TAG_DOUBLE -> "double"

\* sizeof the element of a TAG_BYTEARRAY, TAG_INTARRAY, TAG_LONGARRAY.
ElementSize(type) ==
    CASE type = TAG_BYTEARRAY -> 1
      [] type = TAG_INTARRAY -> 4
      [] type = TAG_LONGARRAY -> 8

RECURSIVE from_nbt(_, _, _, _)
RECURSIVE from_nbt_elements(_, _, _, _, _, _)
RECURSIVE from_nbt_children(_, _, _, _)

\* for (int i = 0; i < length; ++i) out_values[i] = from_nbt(bytes, true, {type});
from_nbt_elements(s, type, n, acc, seen, e) ==
    IF n = 0 THEN [st |-> "ok", rest |-> s, tags |-> acc, seen |-> seen]
    ELSE LET r == from_nbt(s, TRUE, <<type>>, e)
         IN  IF r.st # "ok"
             THEN [st |-> r.st, rest |-> r.rest, tags |-> acc, seen |-> seen \o r.seen]
             ELSE from_nbt_elements(r.rest, type, n - 1, Append(acc, r.tag),
                                    seen \o r.seen, e)

\* byte_t nextType = read(bytes, TAG_BYTE).b;
\* while (nextType != TAG_END) { push_back(from_nbt(bytes, false, {nextType})); ... }
\* On an exhausted stream nextType is junk at every turn: the loop ends at
\* once (junk = TAG_END), or a child fails, or it appends children until
\* memory runs out (std::bad_alloc), or recurses until the stack does.
from_nbt_children(s, acc, seen, e) ==
    LET nt == read(s, TAG_BYTE, e)
        nextType == nt.num[1]
    IN  IF nextType = TAG_END
        THEN [st |-> "ok", rest |-> nt.rest, tags |-> acc, seen |-> seen]
        ELSE IF s = <<>> /\ nextType = TAG_COMPOUND
        THEN [st |-> "abort", rest |-> s, tags |-> acc, seen |-> seen]
        ELSE LET r == from_nbt(nt.rest, FALSE, <<nextType>>, e)
             IN  IF r.st # "ok"
                 THEN [st |-> r.st, rest |-> r.rest, tags |-> acc, seen |-> seen \o r.seen]
                 ELSE IF s = <<>>
                 THEN [st |-> "error", rest |-> s, tags |-> acc, seen |-> seen \o r.seen]
                 ELSE from_nbt_children(r.rest, Append(acc, r.tag), seen \o r.seen, e)

\* ret.value = out_values; of TAG_ARRAY and TAG_COMPOUND, xs being what the
\* loop before it came to.
from_nbt_tags(type, name, xs) ==
    IF xs.st # "ok" THEN Failed(xs.st, xs.rest, xs.seen)
    ELSE Returned(xs.rest, NBTTag(type, name, "tags", xs.tags), xs.seen)

\* case TAG_ARRAY after both reads: k is the element kind, r the read of the
\* length.  uint_t length: a negative wire length is a huge one.
from_nbt_length(name, k, r, e) ==
    IF r.st # "ok" THEN Failed(r.st, r.rest, <<TAG_ARRAY>>)
    ELSE IF ~CanAllocate(r.num, SizeofNBTTag) THEN Failed("error", r.rest, <<TAG_ARRAY>>)
    ELSE from_nbt_tags(TAG_ARRAY, name,
                       from_nbt_elements(r.rest, k, Nat31(r.num), <<>>, <<TAG_ARRAY>>, e))

\* case TAG_ARRAY after byte_t type = read(bytes, TAG_BYTE).b, k being that read.
from_nbt_list(name, k, e) == from_nbt_length(name, k.num[1], read(k.rest, TAG_INT, e), e)

\* A switch without the default case: a kind outside 0x01..0x0C falls
\* through to `return ret`.
from_nbt_switch_no_default(type, name, in, e) ==
    Returned(in, NBTTag(type, name, DefaultTag.alt, DefaultTag.value), <<type>>)

\* switch (ret.type), entered with the kind, the name and the stream behind them.
from_nbt_switch(type, name, in, e) ==
    CASE type \in {TAG_BYTE, TAG_SHORT, TAG_INT, TAG_LONG, TAG_FLOAT, TAG_DOUBLE} ->
           LET r == read(in, type, e)
           IN  IF r.st # "ok" THEN Failed(r.st, r.rest, <<type>>)
               ELSE Returned(r.rest, NBTTag(type, name, ScalarAlt(type), r.num), <<type>>)
      [] type = TAG_STRING ->
           LET r == read_string(in, e)
           IN  IF r.st # "ok" THEN Failed(r.st, r.rest, <<type>>)
               ELSE Returned(r.rest, NBTTag(type, name, "string", r.str), <<type>>)
      [] type \in {TAG_BYTEARRAY, TAG_INTARRAY, TAG_LONGARRAY} ->
           \* out_values is filled and dropped: ret.value is never
           \* assigned and keeps the empty vector<NBTTag> of NBTTag().
           LET r == read(in, TAG_INT, e)
           IN  IF r.st # "ok" THEN Failed(r.st, r.rest, <<type>>)
               ELSE IF ~CanAllocate(r.num, ElementSize(type))
               THEN Failed("error", r.rest, <<type>>)
               ELSE Returned(Skip(r.rest, Nat31(r.num), ElementSize(type)),
                             NBTTag(type, name, DefaultTag.alt, DefaultTag.value),
                             <<type>>)
      [] type = TAG_ARRAY -> from_nbt_list(name, read(in, TAG_BYTE, e), e)
      [] type = TAG_COMPOUND ->
           from_nbt_tags(type, name, from_nbt_children(in, <<>>, <<type>>, e))
      [] OTHER -> Failed("error", in, <<type>>)

\* from_nbt after ret.name = read_string(bytes), rn being that read.
from_nbt_named(type, rn, e) ==
    IF rn.st # "ok" THEN Failed(rn.st, rn.rest, <<>>)
    ELSE from_nbt_switch(type, rn.str, rn.rest, e)

\* from_nbt after ret.type is set, rt being the read (or the override) it is set from.
from_nbt_typed(rt, suppress_name, e) ==
    from_nbt_named(rt.num[1],
                   IF suppress_name
                   THEN [st |-> "ok", rest |-> rt.rest, str |-> <<>>]
                   ELSE read_string(rt.rest, e),
                   e)

from_nbt(s, suppress_name, type_override, e) ==
    from_nbt_typed(IF type_override # <<>>
                   THEN [st |-> "ok", rest |-> s, num |-> type_override]
                   ELSE read(s, TAG_BYTE, e),
                   suppress_name, e)

-----------------------------------------------------------------------------
(* The accessors of NBTTag.  They end with st = "ok", with "error" (a       *)
(* std::runtime_error of the accessor) or with "bad_variant_access" (the   *)
(* exception std::get throws when the variant holds another alternative).  *)

\* The types T of the specialisations get<T>, named as the alternatives of
\* DataType are.  "uchar" is byte_t, unsigned char: DataType has a char and
\* a signed char (short_t) but no unsigned char, no tag ever holds one.
GetTypes ==
    {"uchar", "short", "int", "long", "float", "double", "string",
     "bytes", "ints", "longs", "tags"}

\* The kind get<T> compares this->type with.
GetKind(T) ==
    CASE T = "uchar" -> TAG_BYTE
      [] T = "short" -> TAG_SHORT
      [] T = "int" -> TAG_INT
      [] T = "long" -> TAG_LONG
      [] T = "float" -> TAG_FLOAT
      [] T = "double" -> TAG_DOUBLE
      [] T = "string" -> TAG_STRING
      [] T = "bytes" -> TAG_BYTEARRAY
      [] T = "ints" -> TAG_INTARRAY
      [] T = "longs" -> TAG_LONGARRAY
      [] T = "tags" -> TAG_ARRAY

\* std::get<T>(this->value)
std_get(t, T) ==
    IF t.alt = T
    THEN [st |-> "ok", value |-> t.value]
    ELSE [st |-> "bad_variant_access", value |-> <<>>]

\* template <> T NBTTag::get<T>() const
get(t, T) ==
    IF t.type = GetKind(T) THEN std_get(t, T) ELSE [st |-> "error", value |-> <<>>]

\* for (int i = 0; i < val.size(); ++i) if (val[i].name == name) return val[i];
\* the index (from 1) the loop returns at, 0 if it runs to its end.
Find(val, name) ==
    IF \E i \in 1..Len(val) : val[i].name = name
    THEN CHOOSE i \in 1..Len(val) :
             /\ val[i].name = name
             /\ \A k \in 1..(i - 1) : val[k].name # name
    ELSE 0

\* An NBTTag whose vector has been destroyed and freed, as its memory may
\* read afterwards: the first bytes (type) taken by the allocator, the
\* variant valueless.
Freed(t, e) == [type |-> e.junk, name |-> t.name, alt |-> "valueless", value |-> <<>>]

\* `return val[i]` where val is a local copy of the children: the reference
\* returned names an element of a vector destroyed at the return.  What the
\* caller finds behind it is not defined: the element as it was, the freed
\* memory, or no memory at all.
Dangling(t, e) ==
    { [st |-> "ok", tag |-> t],
      [st |-> "ok", tag |-> Freed(t, e)],
      [st |-> "abort", tag |-> DefaultTag] }

\* The outcome of an accessor that throws st; `this` is the tag after it.
Thrown(st, this) == [st |-> st, tag |-> DefaultTag, this |-> this]

\* What is left of a call that went into the case TAG_COMPOUND and found
\* a child at index i.
Found(t, i, e) == {[st |-> r.st, tag |-> r.tag, this |-> t] : r \in Dangling(t.value[i], e)}

\* NBTTag& NBTTag::at(const std::string& name) const: the outcomes it can have
at(t, name, e) ==
    IF t.type # TAG_COMPOUND THEN {Thrown("error", t)}
    ELSE IF t.alt # "tags" THEN {Thrown("bad_variant_access", t)}
    ELSE IF Find(t.value, name) = 0 THEN {Thrown("error", t)}
    ELSE Found(t, Find(t.value, name), e)

\* emplace_back(TAG_BYTE, name, 0): the int 0 selects the int_t alternative.
emplace_back(t, name) ==
    [t EXCEPT !.value = Append(@, NBTTag(TAG_BYTE, name, "int", <<0, 0, 0, 0>>))]

\* NBTTag& NBTTag::operator[](const std::string& name): the outcomes it can
\* have.  The case TAG_COMPOUND has no break and no return behind its
\* emplace_back: a miss appends the child and goes on into default: throw.
operator_index(t, name, e) ==
    IF t.type # TAG_COMPOUND THEN {Thrown("error", t)}
    ELSE IF t.alt # "tags" THEN {Thrown("bad_variant_access", t)}
    ELSE IF Find(t.value, name) = 0 THEN {Thrown("error", emplace_back(t, name))}
    ELSE Found(t, Find(t.value, name), e)

\* bool NBTTag::contains(const std::string& key) const
contains(t, key) ==
    IF t.type # TAG_COMPOUND THEN [st |-> "error", value |-> FALSE]
    ELSE IF t.alt # "tags" THEN [st |-> "bad_variant_access", value |-> FALSE]
    ELSE [st |-> "ok", value |-> \E i \in 1..Len(t.value) : t.value[i].name = key]

-----------------------------------------------------------------------------
(* The region container (region.hpp).  The file is the sequence of its     *)
(* bytes; positions count from 0 as tellp and seekg do.                    *)

\* enum CompressionScheme
GZIP == 1
ZLIB == 2
NOTHING == 3
LZ4 == 4
CUSTOM == 127

\* 0x1000, the bytes of a sector, and the entries of a header table
SectorSize == 4096
RegionChunks == 1024

\* ret[i] of read_region_file as std::array<NBTTag, 1024> ret made it, had
\* the loop gone on without giving it a value.
UnsetChunk == NBTTag(TAG_END, <<>>, "tags", <<>>)

\* NBTTag(TAG_BYTE, "EmptyChunk", 0): the int 0 selects the int_t
\* alternative of the variant.
EmptyChunk ==
    NBTTag(TAG_BYTE, <<69, 109, 112, 116, 121, 67, 104, 117, 110, 107>>, "int", <<0, 0, 0, 0>>)

\* A sector of bytes that are all b.
SectorOf == [b \in 0..255 |-> [k \in 1..SectorSize |-> b]]

\* A pad with bytes_left = 0xfff - offset, which stops one byte short of
\* the sector end.
pad_short(w) ==
    IF w.st # "ok" THEN w
    ELSE Put(w, SubSeq(SectorOf[0], 1, SectorSize - 1 - (Len(w.out) % SectorSize)))

\* internal::pad: bytes_left = 0x1000 - offset is never 0, a stream at a
\* sector end gets a whole sector of zeros.
pad(w) ==
    IF w.st # "ok" THEN w
    ELSE Put(w, SubSeq(SectorOf[0], 1, SectorSize - (Len(w.out) % SectorSize)))

\* seekp(pos); write(bs); seekp(end) on bytes already written, and the
\* same for bytes of an array in memory.
Overwrite(out, pos, bs) ==
    SubSeq(out, 1, pos) \o bs \o SubSeq(out, pos + Len(bs) + 1, Len(out))

\* The gzip and zlib filters of boost::iostreams: each frames the data it
\* is given (magic bytes, a block with its length, a check byte standing
\* for CRC-32 or Adler-32) and gives the data back from a frame of its own
\* kind, failing on any other bytes.
RECURSIVE Checksum(_)
Checksum(bs) == IF bs = <<>> THEN 0 ELSE (Head(bs) + Checksum(Tail(bs))) % 256

Magic(scheme) == IF scheme = GZIP THEN <<31, 139>> ELSE <<120, 156>>

Compress(scheme, bs) == Magic(scheme) \o BE16(Len(bs)) \o bs \o <<Checksum(bs)>>

Framed(scheme, s, n) ==
    /\ Len(s) >= 5 + n
    /\ s[5 + n] = Checksum(SubSeq(s, 5, 4 + n))

Decompress(scheme, s) ==
    IF Len(s) >= 4 /\ SubSeq(s, 1, 2) = Magic(scheme) /\ Framed(scheme, s, s[3] * 256 + s[4])
    THEN [st |-> "ok", out |-> SubSeq(s, 5, 4 + s[3] * 256 + s[4])]
    ELSE [st |-> "error", out |-> <<>>]

\* write_nbt_gzip(stream, tag), write_nbt_zlib(stream, tag): z is what
\* tag.to_nbt wrote into the filter, a stream of its own.
write_nbt_gzip(w, z) ==
    IF w.st # "ok" THEN w
    ELSE IF z.st # "ok" THEN [w EXCEPT !.st = z.st]
    ELSE Put(w, Compress(GZIP, z.out))

write_nbt_zlib(w, z) ==
    IF w.st # "ok" THEN w
    ELSE IF z.st # "ok" THEN [w EXCEPT !.st = z.st]
    ELSE Put(w, Compress(ZLIB, z.out))

\* The stream NBTTag::from_nbt is handed by read_nbt_gzip(stream) and
\* read_nbt_zlib(stream), the filter's, and by read_region_file for a
\* chunk that is not compressed, the file itself.
ChunkStream(s, scheme) ==
    CASE scheme = GZIP -> Decompress(GZIP, s)
      [] scheme = ZLIB -> Decompress(ZLIB, s)
      [] scheme = NOTHING -> [st |-> "ok", out |-> s]

\* The indices (from 0) of the tags write_region_file has a chunk to write
\* for, and the first of them at or after index i (RegionChunks if none).
IsChunk(t) == t.type = TAG_COMPOUND

Chunks(tags) == {j \in 0..(RegionChunks - 1) : IsChunk(tags[j + 1])}

NextChunk(chunks, i) ==
    IF \E j \in chunks : j >= i
    THEN CHOOSE j \in chunks : j >= i /\ \A k \in chunks : k >= i => j <= k
    ELSE RegionChunks

\* locations[i] = ((pos >> 12) << 8) & 0xffffff00; ... |= ((new_pos - pos) >> 12) & 0xff;
\* the 4 bytes of the value, most significant first.
Location(pos, new_pos) ==
    << ((pos \div SectorSize) \div 65536) % 256,
       ((pos \div SectorSize) \div 256) % 256,
       (pos \div SectorSize) % 256,
       ((new_pos - pos) \div SectorSize) % 256 >>

\* The bytes `num` has in memory once is_little_endian() has decided on
\* the swap: what writei puts on a stream.
Stored(num, e) == writei(OStream, num, e).out

\* switch (chunk_compression) of write_region_file; z is what to_nbt of
\* the chunk's tag writes on a stream, which for NOTHING is the file.
write_chunk_body(w, z, scheme) ==
    CASE scheme = GZIP -> write_nbt_gzip(w, z)
      [] scheme = ZLIB -> write_nbt_zlib(w, z)
      [] scheme = NOTHING ->
           IF w.st # "ok" THEN w ELSE [st |-> z.st, out |-> w.out \o z.out]
      [] OTHER -> IF w.st # "ok" THEN w ELSE [w EXCEPT !.st = "unsupported"]

\* bytes = end_pos - pos; seekp(pos); writei(file, bytes); seekp(end_pos); pad(file);
write_chunk_size(w, pos, e) ==
    IF w.st # "ok" THEN w
    ELSE pad([w EXCEPT !.out = Overwrite(w.out, pos, Stored(U32(Len(w.out) - pos), e))])

\* One turn of the loop for a TAG_COMPOUND: the file after it.
write_chunk(w, t, scheme, e) ==
    write_chunk_size(write_chunk_body(writeb(writei(w, U32(0), e), scheme),
                                      to_nbt(OStream, t, e), scheme),
                     Len(w.out), e)

\* The turns from index i up to index j, none of them for a TAG_COMPOUND:
\* locations[k] = 0 in each.  locations is the array as it lies in memory,
\* 4 bytes an entry.
skip_chunks(locations, i, j) ==
    Overwrite(locations, 4 * i, SubSeq(SectorOf[0], 1, 4 * (j - i)))

RECURSIVE write_chunks(_, _, _, _, _, _, _)
RECURSIVE write_chunks_on(_, _, _, _, _, _, _, _)
\* The loop over chunk_tags from index i on, the index of a TAG_COMPOUND
\* or RegionChunks; w is the file.
write_chunks(w, locations, i, tags, chunks, scheme, e) ==
    IF w.st # "ok" \/ i >= RegionChunks
    THEN [st |-> w.st, out |-> w.out, locations |-> locations]
    ELSE write_chunks_on(write_chunk(w, tags[i + 1], scheme, e), Len(w.out),
                         locations, i, tags, chunks, scheme, e)

\* The turn of index i done, w1 being the file after it and pos where the
\* chunk began: on to the next TAG_COMPOUND.
write_chunks_on(w1, pos, locations, i, tags, chunks, scheme, e) ==
    write_chunks(w1,
                 skip_chunks(Overwrite(locations, 4 * i, Stored(Location(pos, Len(w1.out)), e)),
                             i + 1, NextChunk(chunks, i + 1)),
                 NextChunk(chunks, i + 1), tags, chunks, scheme, e)

\* file.seekp(0); file.write((char*)locations.data(), 4096); r is what the
\* loop came to.
write_locations(r) ==
    IF r.st # "ok" THEN [st |-> r.st, out |-> r.out]
    ELSE [st |-> "ok", out |-> Overwrite(r.out, 0, r.locations)]

\* write_region_file once the loop over timestamps is done
write_region_chunks(tags, chunks, scheme, e) ==
    write_locations(
        write_chunks([st |-> "ok", out |-> SectorOf[e.junk]],
                     skip_chunks(SectorOf[e.junk], 0, NextChunk(chunks, 0)),
                     NextChunk(chunks, 0), tags, chunks, scheme, e))

\* void write_region_file(path, chunk_tags, chunk_compression)
\* The array locations is written before it is given any value; the loop
\* over timestamps asks is_little_endian() and writes nothing.
write_region_file(tags, scheme, e) ==
    IF ~Returns(e)
    THEN [st |-> "hang", out |-> SectorOf[e.junk]]
    ELSE write_region_chunks(tags, Chunks(tags), scheme, e)

\* The position internal::pad leaves a stream at that was at pos.
PadTo(pos) == pos + (SectorSize - (pos % SectorSize))

\* One turn of the loop of write_region_file for a TAG_COMPOUND, as the
\* positions it computes with: the chunk begins at pos and its body, what
\* the switch writes behind the 4 bytes of the size and the scheme byte,
\* takes n bytes.  Between the switch and the end of the loop nothing looks
\* at a size and nothing throws.
chunk_positions(pos, n) ==
    [st |-> "ok",
     end_pos |-> pos + 5 + n,
     new_pos |-> PadTo(pos + 5 + n),
     location |-> Location(pos, PadTo(pos + 5 + n))]

\* The n bytes at position pos of the file, fewer if it ends before.
At(f, pos, n) ==
    IF pos >= Len(f) THEN <<>> ELSE SubSeq(f, pos + 1, Min(pos + n, Len(f)))

\* uint_t location = read(file, TAG_INT).i for entry i (from 0)
ReadLocation(f, i, e) == read(At(f, 4 * i, 4), TAG_INT, e).num

\* offsets[i] = location >> 8, as its 3 bytes
Offset(location) == SubSeq(location, 1, 3)

\* file.seekg(offsets[i] * 4096): the stream from there on.  A stream
\* whose failbit is set does not move and reads nothing.
Seekg(f, failbit, offset) ==
    IF failbit \/ (offset[1] * 256 + offset[2]) * 256 + offset[3] > Len(f) \div SectorSize
    THEN <<>>
    ELSE Drop(f, ((offset[1] * 256 + offset[2]) * 256 + offset[3]) * SectorSize)

\* offsets[i] * 4096 for entry i (from 0): where the reader looks for the
\* chunk.
ChunkPos(f, i, e) ==
    ((Offset(ReadLocation(f, i, e))[1] * 256 + Offset(ReadLocation(f, i, e))[2]) * 256
     + Offset(ReadLocation(f, i, e))[3]) * SectorSize

\* from_nbt, read_nbt_gzip or read_nbt_zlib, d being the stream for from_nbt
read_chunk_tag(s, d, e) ==
    IF d.st # "ok" THEN Failed("error", s, <<>>) ELSE from_nbt(d.out, FALSE, <<>>, e)

\* switch (scheme) of read_region_file, s being the stream behind the
\* scheme byte.  case LZ4, case CUSTOM and default share one throw.
read_chunk_body(s, scheme, e) ==
    IF scheme \in {NOTHING, GZIP, ZLIB}
    THEN read_chunk_tag(s, ChunkStream(s, scheme), e)
    ELSE Failed("unsupported", s, <<>>)

\* byte_length = read(file, TAG_INT).i; scheme = read(file, TAG_BYTE).b; switch ...
read_chunk_scheme(r, e) == read_chunk_body(r.rest, r.num[1], e)

read_chunk(s, e) == read_chunk_scheme(read(read(s, TAG_INT, e).rest, TAG_BYTE, e), e)

\* A turn of the last loop that went past the test of offsets[i], to
\* file.seekg and the reads behind it, r being what these came to.
Sought(r) == [st |-> r.st, tag |-> r.tag, sought |-> TRUE]

\* What the turn of index i (from 0) of the last loop comes to.
read_entry(f, failbit, i, e) ==
    IF Offset(ReadLocation(f, i, e)) = <<0, 0, 0>>
    THEN [st |-> "ok", tag |-> EmptyChunk, sought |-> FALSE]
    ELSE Sought(read_chunk(Seekg(f, failbit, Offset(ReadLocation(f, i, e))), e))

\* The entries (from 0) of the first table that are not four zero bytes:
\* any other entry reads as location 0 whatever the byte order.
NonZero(f) == {i \in 0..(RegionChunks - 1) : At(f, 4 * i, 4) # <<0, 0, 0, 0>>}

\* The turns of the last loop, entries[i] being what the turn of index i
\* comes to; the first that does not return ends the call.  sought is the
\* set of the indices the call did a seekg for.
read_entries(entries, nz) ==
    IF \A i \in nz : entries[i].st = "ok"
    THEN [st |-> "ok",
          tags |-> [i \in 1..RegionChunks |->
                       IF i - 1 \in nz THEN entries[i - 1].tag ELSE EmptyChunk],
          sought |-> {i \in nz : entries[i].sought}]
    ELSE [st |-> entries[CHOOSE i \in nz :
                             /\ entries[i].st # "ok"
                             /\ \A k \in nz : k < i => entries[k].st = "ok"].st,
          tags |-> <<>>,
          sought |-> {i \in nz : /\ entries[i].sought
                                 /\ \A k \in nz : k < i => entries[k].st = "ok"}]

\* read_region_file once the first table is read
read_region_chunks(f, nz, e) ==
    read_entries([i \in nz |-> read_entry(f, Len(f) < 8 * RegionChunks, i, e)], nz)

\* std::array<NBTTag, 1024> read_region_file(path)
\* The two tables are read entry by entry; a file that ends before the
\* second does leaves failbit set.
read_region_file(f, e) ==
    IF ~Returns(e) THEN [st |-> "hang", tags |-> <<>>, sought |-> {}]
    ELSE read_region_chunks(f, NonZero(f), e)

-----------------------------------------------------------------------------
(* The region caches of level.hpp, which region.hpp includes (line 15) and *)
(* which is not among the sources: modelled from the specification         *)
(* (sections 3 and 9).  A cache is the sequence of its entries in the      *)
(* order they were inserted, a block cache and a biome cache alike.        *)
(* Entries are numbered: what name or BlockProperties a number stands for  *)
(* makes no difference to a cache.                                         *)

\* The position, from 1, of entry in cache; 0 if it is not there.  The
\* source scans linearly.
Position(cache_, entry) ==
    IF \E i \in 1..Len(cache_) : cache_[i] = entry
    THEN CHOOSE i \in 1..Len(cache_) : cache_[i] = entry
    ELSE 0

\* cache.insert_or_lookup(entry).  "In the source, the first successful
\* insert returns size() (i.e. 1-based); subsequent lookups return the
\* 0-based position."
insert_or_lookup(cache_, entry) ==
    IF Position(cache_, entry) # 0
    THEN [cache |-> cache_, index |-> Position(cache_, entry) - 1]
    ELSE [cache |-> Append(cache_, entry), index |-> Len(cache_) + 1]

-----------------------------------------------------------------------------
(* The paletted-container decoder of level.hpp, modelled from the          *)
(* specification (sections 4.E and 9).  The palette is the sequence of its *)
(* entries; the data is a sequence of 64-bit words, each the sequence of   *)
(* its 64 bits, least significant first.  Bits are counted from 0 through  *)
(* the words, indices and output positions from 0.                         *)

\* "an output count N (4096 for blocks, 64 for biomes)"
BlockCount == 4096
BiomeCount == 64
WordBits == 64

OutputCount(kind) == IF kind = "blocks" THEN BlockCount ELSE BiomeCount

\* ceil(log2(P))
CeilLog2(P) == CHOOSE b \in 0..12 : 2^b >= P /\ \A c \in 0..(b - 1) : 2^c < P

\* "Blocks: B = max(4, ceil(log2(P))).  Biomes: B = ceil(log2(P)) with no floor."
BitWidth(kind, P) ==
    IF kind = "blocks" /\ CeilLog2(P) < 4 THEN 4 ELSE CeilLog2(P)

\* "If P >= 3: indices may straddle u64 boundaries", for biomes only.
Straddling(kind, P) == kind = "biomes" /\ P >= 3

\* The bit at which index i starts.  Non-straddling: "in each u64 word,
\* floor(64 / B) indices are extracted", the remainder of the word is
\* discarded.  Straddling: the bits left of a word are kept and the next
\* word goes on, so the indices lie one behind the other.
IndexStart(kind, P, i) ==
    IF Straddling(kind, P)
    THEN i * BitWidth(kind, P)
    ELSE (i \div (WordBits \div BitWidth(kind, P))) * WordBits
         + (i % (WordBits \div BitWidth(kind, P))) * BitWidth(kind, P)

\* Index i has bits in two words.
Straddles(kind, P, i) ==
    IndexStart(kind, P, i) \div WordBits
        # (IndexStart(kind, P, i) + BitWidth(kind, P) - 1) \div WordBits

\* The words a container of this kind and palette size needs.
WordsNeeded(kind, P) ==
    (IndexStart(kind, P, OutputCount(kind) - 1) + BitWidth(kind, P) - 1) \div WordBits + 1

Bit(data, g) == data[(g \div WordBits) + 1][(g % WordBits) + 1]

RECURSIVE Bits(_, _, _)
\* The index whose n bits, least significant first, are the bits from g
\* on: (word >> shift) & mask, and "(high_bits << len_last) | low_bits"
\* for an index in two words.
Bits(data, g, n) == IF n = 0 THEN 0 ELSE Bit(data, g) + 2 * Bits(data, g + 1, n - 1)

\* The index extracted for every output position.
Extracted(kind, P, data) ==
    [i \in 1..OutputCount(kind) |-> Bits(data, IndexStart(kind, P, i - 1), BitWidth(kind, P))]

\* How often the decoder writes out[i]: once, but "the biome branch in
\* the source writes out[i] twice in some iterations when handling
\* straddling".
Writes(kind, P) ==
    [i \in 1..OutputCount(kind) |-> IF Straddles(kind, P, i - 1) THEN 2 ELSE 1]

\* The number of positions emitted before the first index k >= P.
EmittedCount(ks, P) ==
    IF \E i \in 1..Len(ks) : ks[i] >= P
    THEN (CHOOSE i \in 1..Len(ks) : ks[i] >= P /\ \A j \in 1..(i - 1) : ks[j] < P) - 1
    ELSE Len(ks)

\* Where, among the first n positions, each palette entry the cache does
\* not hold is met first.
FirstMet(cache_, palette, ks, n) ==
    [e \in {palette[ks[i] + 1] : i \in 1..n} \ {cache_[c] : c \in 1..Len(cache_)} |->
        CHOOSE i \in 1..n : palette[ks[i] + 1] = e /\ \A j \in 1..(i - 1) : palette[ks[j] + 1] # e]

\* Those entries in the order they are met.
InOrderMet(first) ==
    [r \in 1..Cardinality(DOMAIN first) |->
        CHOOSE e \in DOMAIN first : Cardinality({f \in DOMAIN first : first[f] <= first[e]}) = r]

\* The cache when position i is emitted: every entry met before has been
\* inserted.
CacheAt(cache_, first, met, i) ==
    cache_ \o SubSeq(met, 1, Cardinality({f \in DOMAIN first : first[f] < i}))

\* What insert_or_lookup returns for an entry where it is met first, and
\* what it returns for any entry from then on, its place in the cache
\* being settled.
AtInsert(cache_, first, met) ==
    [e \in DOMAIN first |-> insert_or_lookup(CacheAt(cache_, first, met, first[e]), e).index]

Later(cache_, palette, met) ==
    [k \in 1..Len(palette) |-> insert_or_lookup(cache_ \o met, palette[k]).index]

\* "emit cache.insert_or_lookup(palette[k])" for positions 1..n
Emitted(palette, ks, n, first, inserted, later) ==
    [i \in 1..n |->
        IF palette[ks[i] + 1] \in DOMAIN first /\ first[palette[ks[i] + 1]] = i
        THEN inserted[palette[ks[i] + 1]]
        ELSE later[ks[i] + 1]]

Emit(cache_, palette, ks, n, first, met) ==
    Emitted(palette, ks, n, first, AtInsert(cache_, first, met), Later(cache_, palette, met))

\* The packed case.  "For each extracted index k, fail with
\* PaletteOutOfRange if k >= P": the positions before that one have been
\* emitted, and their entries are in the cache.
decode_packed(kind, palette, ks, n, first, cache_) ==
    [st |-> IF n < Len(ks) THEN "PaletteOutOfRange" ELSE "ok",
     out |-> Emit(cache_, palette, ks, n, first, InOrderMet(first)),
     writes |-> SubSeq(Writes(kind, Len(palette)), 1, n),
     cache |-> cache_ \o InOrderMet(first)]

\* "If palette.length == 1, emit N copies of the cache index for
\* palette[0] and return.  The data field is not required in this case."
decode_uniform(kind, palette, cache_) ==
    [st |-> "ok",
     out |-> [i \in 1..OutputCount(kind) |-> insert_or_lookup(cache_, palette[1]).index],
     writes |-> [i \in 1..OutputCount(kind) |-> 1],
     cache |-> insert_or_lookup(cache_, palette[1]).cache]

decode_extracted(kind, palette, ks, n, cache_) ==
    decode_packed(kind, palette, ks, n, FirstMet(cache_, palette, ks, n), cache_)

\* The decoder of a container (block_states or biomes) with this palette
\* and data, emitting into this cache.
decode_container(kind, palette, data, cache_) ==
    IF Len(palette) = 1
    THEN decode_uniform(kind, palette, cache_)
    ELSE decode_extracted(kind, palette, Extracted(kind, Len(palette), data),
                          EmittedCount(Extracted(kind, Len(palette), data), Len(palette)),
                          cache_)

-----------------------------------------------------------------------------
(* The NBT wire format (all numbers big-endian, names and strings with a   *)
(* 16-bit length, list elements as bare payloads): the bytes a conforming  *)
(* producer emits for a tag.  It is the yardstick the encoder's output is  *)
(* held against and the source of the wires handed to the decoder.         *)

RECURSIVE Concat(_)
Concat(ss) == IF ss = <<>> THEN <<>> ELSE Head(ss) \o Concat(Tail(ss))

RECURSIVE PayloadOf(_)
RECURSIVE WireOf(_)

PayloadOf(t) ==
    CASE t.alt = "short" -> <<SignByte(t.value[1]), t.value[1]>>
      [] t.alt \in {"char", "int", "long", "float", "double"} -> t.value
      [] t.alt = "string" -> BE16(Len(t.value)) \o t.value
      [] t.alt \in {"bytes", "ints", "longs"} -> U32(Len(t.value)) \o Concat(t.value)
      [] t.alt = "tags" /\ t.type = TAG_ARRAY ->
           <<IF t.value = <<>> THEN TAG_END ELSE t.value[1].type>>
           \o U32(Len(t.value))
           \o Concat([i \in 1..Len(t.value) |-> PayloadOf(t.value[i])])
      [] t.alt = "tags" /\ t.type = TAG_COMPOUND ->
           Concat([i \in 1..Len(t.value) |-> WireOf(t.value[i])]) \o <<TAG_END>>

WireOf(t) == <<t.type>> \o BE16(Len(t.name)) \o t.name \o PayloadOf(t)

\* Equality of two tags: kind, name, the alternative held and the value, at
\* every node.
RECURSIVE TagEq(_, _)
TagEq(a, b) ==
    /\ a.type = b.type
    /\ a.name = b.name
    /\ a.alt = b.alt
    /\ IF a.alt = "tags"
       THEN /\ Len(a.value) = Len(b.value)
            /\ \A i \in 1..Len(a.value) : TagEq(a.value[i], b.value[i])
       ELSE a.value = b.value

-----------------------------------------------------------------------------
(* Inputs: well-formed tag trees of all 12 kinds, with an empty and a      *)
(* non-empty name, nested up to depth 3.  A Short holds one byte, all a    *)
(* short_t can hold.                                                      *)

NameX == <<120>>
NameL == <<108>>
NameR == <<114>>

Leaves(nm) ==
    << NBTTag(TAG_BYTE, nm, "char", <<1>>),
       NBTTag(TAG_BYTE, nm, "char", <<255>>),
       NBTTag(TAG_SHORT, nm, "short", <<5>>),
       NBTTag(TAG_SHORT, nm, "short", <<200>>),
       NBTTag(TAG_INT, nm, "int", <<0, 0, 1, 2>>),
       NBTTag(TAG_INT, nm, "int", <<255, 255, 255, 255>>),
       NBTTag(TAG_LONG, nm, "long", <<0, 0, 0, 0, 0, 0, 1, 2>>),
       NBTTag(TAG_FLOAT, nm, "float", <<63, 128, 0, 0>>),
       NBTTag(TAG_DOUBLE, nm, "double", <<63, 240, 0, 0, 0, 0, 0, 0>>),
       NBTTag(TAG_DOUBLE, nm, "double", <<0, 0, 0, 0, 0, 0, 0, 0>>),
       NBTTag(TAG_BYTEARRAY, nm, "bytes", <<>>),
       NBTTag(TAG_BYTEARRAY, nm, "bytes", << <<1>>, <<2>> >>),
       NBTTag(TAG_STRING, nm, "string", <<>>),
       NBTTag(TAG_STRING, nm, "string", <<97, 98>>),
       NBTTag(TAG_INTARRAY, nm, "ints", << <<0, 0, 0, 7>> >>),
       NBTTag(TAG_LONGARRAY, nm, "longs", << <<0, 0, 0, 0, 0, 0, 0, 7>> >>) >>

ByteElem(b) == NBTTag(TAG_BYTE, <<>>, "char", <<b>>)

Lists(nm) ==
    << NBTTag(TAG_ARRAY, nm, "tags", <<>>),
       NBTTag(TAG_ARRAY, nm, "tags", <<ByteElem(1), ByteElem(2), ByteElem(3)>>),
       NBTTag(TAG_ARRAY, nm, "tags", <<Leaves(<<>>)[5], Leaves(<<>>)[6]>>),
       NBTTag(TAG_ARRAY, nm, "tags", <<Leaves(<<>>)[14]>>),
       NBTTag(TAG_ARRAY, nm, "tags", <<NBTTag(TAG_COMPOUND, <<>>, "tags", <<>>)>>),
       NBTTag(TAG_ARRAY, nm, "tags", <<NBTTag(TAG_ARRAY, <<>>, "tags", <<ByteElem(7)>>)>>) >>

Compounds(nm) ==
    [i \in 1..Len(Leaves(NameX)) |-> NBTTag(TAG_COMPOUND, nm, "tags", <<Leaves(NameX)[i]>>)]
    \o [i \in 1..Len(Leaves(<<>>)) |-> NBTTag(TAG_COMPOUND, nm, "tags", <<Leaves(<<>>)[i]>>)]
    \o << NBTTag(TAG_COMPOUND, nm, "tags", <<>>),
          NBTTag(TAG_COMPOUND, nm, "tags", <<Leaves(NameX)[1], Leaves(NameL)[5]>>),
          NBTTag(TAG_COMPOUND, nm, "tags", <<Lists(NameL)[2]>>),
          NBTTag(TAG_COMPOUND, nm, "tags", <<Lists(<<>>)[1]>>),
          NBTTag(TAG_COMPOUND, nm, "tags",
                 <<NBTTag(TAG_COMPOUND, NameX, "tags", <<Leaves(NameL)[1]>>)>>) >>

Tags ==
    Leaves(<<>>) \o Leaves(NameX) \o Lists(<<>>) \o Lists(NameL)
    \o Compounds(<<>>) \o Compounds(NameR)

\* Lists whose elements are not all of the kind of the first, alone and
\* below a compound, and a list of one element of kind End.
Mixed(nm) ==
    << NBTTag(TAG_ARRAY, nm, "tags", <<ByteElem(1), Leaves(<<>>)[5]>>),
       NBTTag(TAG_ARRAY, nm, "tags", <<Leaves(<<>>)[5], Leaves(<<>>)[6], Leaves(<<>>)[3]>>),
       NBTTag(TAG_ARRAY, nm, "tags", <<Lists(<<>>)[2], NBTTag(TAG_COMPOUND, <<>>, "tags", <<>>)>>),
       NBTTag(TAG_COMPOUND, nm, "tags",
              <<NBTTag(TAG_ARRAY, NameL, "tags", <<Leaves(<<>>)[14], ByteElem(2)>>)>>),
       NBTTag(TAG_ARRAY, nm, "tags", <<DefaultTag>>) >>

\* Typed arrays that hold their elements as tags, the alternative the
\* encoder to a vector asks for.
TagArrays(nm) ==
    << NBTTag(TAG_BYTEARRAY, nm, "tags", <<>>),
       NBTTag(TAG_BYTEARRAY, nm, "tags", <<ByteElem(1), ByteElem(2)>>),
       NBTTag(TAG_INTARRAY, nm, "tags", <<Leaves(<<>>)[5]>>),
       NBTTag(TAG_LONGARRAY, nm, "tags", <<Leaves(<<>>)[7]>>),
       NBTTag(TAG_COMPOUND, nm, "tags",
              <<NBTTag(TAG_INTARRAY, NameX, "tags", <<Leaves(<<>>)[6]>>)>>),
       NBTTag(TAG_BYTEARRAY, nm, "tags", <<ByteElem(1), Leaves(<<>>)[5]>>) >>

\* The tags the encoders are called on.
Encodable == Tags \o Mixed(NameL) \o TagArrays(NameX)

\* Strings for writestr.
Strings == << <<>>, <<120>>, <<97, 98>>, [i \in 1..130 |-> 97] >>

\* Wires no conforming producer emits, or only some do.  k is the element
\* kind and n the 4 bytes of the length of the list the wire starts with.
ListWire(nm, k, n) == <<TAG_ARRAY>> \o BE16(Len(nm)) \o nm \o <<k>> \o n

Malformed ==
    << [class |-> "list", k |-> TAG_END, n |-> <<0, 0, 0, 0>>],
       [class |-> "list", k |-> TAG_BYTE, n |-> <<0, 0, 0, 0>>],
       [class |-> "list", k |-> TAG_INT, n |-> <<0, 0, 0, 0>>],
       [class |-> "list", k |-> TAG_END, n |-> <<255, 255, 255, 255>>],
       [class |-> "list", k |-> TAG_BYTE, n |-> <<255, 255, 255, 255>>],
       [class |-> "list", k |-> TAG_INT, n |-> <<128, 0, 0, 0>>],
       [class |-> "list", k |-> TAG_END, n |-> <<0, 0, 0, 1>>],
       [class |-> "list", k |-> 13, n |-> <<0, 0, 0, 2>>],
       [class |-> "raw", bytes |-> <<TAG_END>>],
       [class |-> "raw", bytes |-> <<TAG_END, 0, 0>>],
       [class |-> "raw", bytes |-> <<13, 0, 0>>],
       [class |-> "raw", bytes |-> <<255, 0, 1, 120, 5>>],
       [class |-> "raw", bytes |-> <<TAG_COMPOUND, 0, 0, 13, 0, 0, TAG_END>>],
       [class |-> "raw", bytes |-> <<TAG_COMPOUND, 0, 0, TAG_BYTE, 0, 0, 5, 13, 0, 0, TAG_END>>],
       [class |-> "raw", bytes |->
            <<TAG_COMPOUND, 0, 0, TAG_ARRAY, 0, 0, TAG_END, 0, 0, 0, 1, TAG_END>>],
       [class |-> "raw", bytes |->
            <<TAG_ARRAY, 0, 0, TAG_ARRAY, 0, 0, 0, 1, 200, 0, 0, 0, 0>>] >>

\* Arrays of 1024 chunk tags: cs lists the chunks that differ from Unset,
\* each with its index from 0.
Unset == NBTTag(TAG_BYTE, <<>>, "char", <<0>>)

RegionOf(cs) ==
    [k \in 1..RegionChunks |->
        IF \E c \in 1..Len(cs) : cs[c].at = k - 1
        THEN cs[CHOOSE c \in 1..Len(cs) : cs[c].at = k - 1].tag
        ELSE Unset]

Regions ==
    << <<>>,
       << [at |-> 0, tag |-> Compounds(<<>>)[33]] >>,
       << [at |-> 42, tag |-> Compounds(<<>>)[17]] >>,
       << [at |-> 0, tag |-> Compounds(<<>>)[33]],
          [at |-> 17, tag |-> Compounds(<<>>)[6]],
          [at |-> 1023, tag |-> Compounds(NameR)[35]] >>,
       << [at |-> 5, tag |-> Leaves(NameX)[5]],
          [at |-> 1023, tag |-> Compounds(<<>>)[28]] >> >>

Schemes == {GZIP, ZLIB, NOTHING, LZ4, CUSTOM}

\* Scheme bytes a region file may hold that write_region_file did not put
\* there: the five of the enum and two that are none of them.
PatchSchemes == Schemes \cup {0, 5}

\* Tags a caller constructs and then calls accessors on: one of each kind
\* and more, each holding the alternative of its kind, and the marker
\* read_region_file constructs for an absent chunk.
Objects ==
    Leaves(NameX)
    \o << Lists(NameL)[1], Lists(NameL)[2],
          Compounds(<<>>)[33], Compounds(NameR)[34],
          NBTTag(TAG_COMPOUND, <<>>, "tags", <<Leaves(NameX)[1], Leaves(NameX)[5]>>),
          EmptyChunk >>

\* Bytes the body of a chunk may take: a few, what fills one sector to its
\* last byte or one more, and what fills 255 sectors, one byte more, or 256.
BodySizes ==
    {4, SectorSize - 5, SectorSize - 4,
     255 * SectorSize - 5, 255 * SectorSize - 4, 256 * SectorSize}

\* Positions of a stream internal::pad is called at: the start of a
\* sector, one byte into it, its last byte, and the same one sector on.
PadSizes == {0, 1, SectorSize - 1, SectorSize, SectorSize + 1}

\* Entries a caller puts into a cache: two that palettes hold as well and
\* one that none does.
CacheEntries == {1, 2, 30}

\* Containers handed to the decoder: the kind, the size P of the palette
\* and what the data words hold: no bit, every bit, every other bit
\* (0xAAAAAAAAAAAAAAAA), or the indices 0, 1, .., P - 1, 0, 1, .. packed as
\* a producer packs them for this kind and P.
Containers ==
    {[kind |-> "blocks", P |-> 1, pattern |-> "zeros"],
     [kind |-> "blocks", P |-> 20, pattern |-> "ones"],
     [kind |-> "blocks", P |-> 20, pattern |-> "packed"],
     [kind |-> "blocks", P |-> 16, pattern |-> "alternating"],
     [kind |-> "biomes", P |-> 1, pattern |-> "zeros"],
     [kind |-> "biomes", P |-> 2, pattern |-> "packed"],
     [kind |-> "biomes", P |-> 2, pattern |-> "ones"],
     [kind |-> "biomes", P |-> 5, pattern |-> "zeros"],
     [kind |-> "biomes", P |-> 5, pattern |-> "packed"],
     [kind |-> "biomes", P |-> 5, pattern |-> "ones"],
     [kind |-> "biomes", P |-> 5, pattern |-> "alternating"],
     [kind |-> "biomes", P |-> 8, pattern |-> "alternating"],
     [kind |-> "biomes", P |-> 8, pattern |-> "packed"]}

\* The palette of P entries: the entries numbered 1 to P.
Palette(P) == [k \in 1..P |-> k]

\* Bit b of word w (both from 0) of the data of container c.
PackedBit(c, w, b) ==
    LET B == BitWidth(c.kind, c.P)
    IN  IF Straddling(c.kind, c.P)
        THEN ((((w * WordBits + b) \div B) % c.P) \div 2^((w * WordBits + b) % B)) % 2
        ELSE IF b \div B >= WordBits \div B THEN 0
        ELSE (((w * (WordBits \div B) + (b \div B)) % c.P) \div 2^(b % B)) % 2

PatternBit(c, w, b) ==
    CASE c.pattern = "zeros" -> 0
      [] c.pattern = "ones" -> 1
      [] c.pattern = "alternating" -> b % 2
      [] c.pattern = "packed" -> PackedBit(c, w, b)

\* The data of container c, as many words as it needs; none for a palette
\* of one entry.
Data(c) ==
    IF c.P = 1 THEN <<>>
    ELSE [w \in 1..WordsNeeded(c.kind, c.P) |->
             [b \in 1..WordBits |-> PatternBit(c, w - 1, b - 1)]]

\* Names looked up in a compound.
Keys == {<<>>, NameX}

MalformedWire(i) ==
    IF Malformed[i].class = "list"
    THEN ListWire(<<>>, Malformed[i].k, Malformed[i].n)
    ELSE Malformed[i].bytes

-----------------------------------------------------------------------------
(* The state machine: a caller with one environment makes calls of the     *)
(* library, each an atomic step unless it gets stuck in is_little_endian.  *)

Hosts == {"little", "big"}
Probes == {"loops", "overflows", "true", "false"}
JunkBytes == {0, 1, 255}

Env == [host |-> host, probe |-> probe, junk |-> junk]

NoResult == [op |-> "none", st |-> "none"]

\* No byte of the file was set by hand.
NoPatch == [at |-> RegionChunks, scheme |-> 0]

\* Where a call that ended with outcome st leaves the caller.
After(st, returned) ==
    CASE st = "ok" -> returned
      [] st = "hang" -> "probe"
      [] OTHER -> "failed"

Init ==
    /\ host \in Hosts
    /\ probe \in Probes
    /\ junk \in JunkBytes
    /\ tag = DefaultTag
    /\ str = <<>>
    /\ ix = 0
    /\ wire = <<>>
    /\ origin = "none"
    /\ pc = "idle"
    /\ res = NoResult
    /\ calls = 0
    /\ chunk_tags = <<>>
    /\ chunk_compression = ZLIB
    /\ file = <<>>
    /\ patch = NoPatch
    /\ obj = DefaultTag
    /\ cache = <<>>
    /\ assigned = <<>>

\* tag.to_nbt(stream) on a fresh stream
ToNbt ==
    /\ pc = "idle"
    /\ \E i \in 1..Len(Encodable) :
         LET w == to_nbt(OStream, Encodable[i], Env)
         IN  /\ tag' = Encodable[i]
             /\ wire' = w.out
             /\ res' = [op |-> "to_nbt", st |-> w.st]
             /\ pc' = After(w.st, "written")
    /\ origin' = "to_nbt"
    /\ UNCHANGED <<host, probe, junk, str, ix, calls>>
    /\ UNCHANGED <<chunk_tags, chunk_compression, file>>
    /\ UNCHANGED <<patch, obj>>
    /\ UNCHANGED <<cache, assigned>>

\* tag.to_nbt(), the encoder that returns a vector; a call that throws
\* returns none.
ToNbtVector ==
    /\ pc = "idle"
    /\ \E i \in 1..Len(Encodable) :
         LET v == to_nbt_vector(Encodable[i])
         IN  /\ tag' = Encodable[i]
             /\ wire' = IF v.st = "ok" THEN v.out ELSE <<>>
             /\ res' = [op |-> "to_nbt_vector", st |-> v.st]
             /\ pc' = After(v.st, "done")
    /\ origin' = "to_nbt_vector"
    /\ UNCHANGED <<host, probe, junk, str, ix, calls>>
    /\ UNCHANGED <<chunk_tags, chunk_compression, file>>
    /\ UNCHANGED <<patch, obj>>
    /\ UNCHANGED <<cache, assigned>>

\* A stream holding the conforming encoding of a well-formed tag.
Conforming ==
    /\ pc = "idle"
    /\ \E i \in 1..Len(Tags) :
         /\ tag' = Tags[i]
         /\ wire' = WireOf(Tags[i])
    /\ origin' = "conforming"
    /\ pc' = "written"
    /\ UNCHANGED <<host, probe, junk, str, ix, res, calls>>
    /\ UNCHANGED <<chunk_tags, chunk_compression, file>>
    /\ UNCHANGED <<patch, obj>>
    /\ UNCHANGED <<cache, assigned>>

\* A stream holding one of the Malformed wires.
Crafted ==
    /\ pc = "idle"
    /\ \E i \in 1..Len(Malformed) :
         /\ ix' = i
         /\ wire' = MalformedWire(i)
    /\ origin' = "malformed"
    /\ pc' = "written"
    /\ UNCHANGED <<host, probe, junk, tag, str, res, calls>>
    /\ UNCHANGED <<chunk_tags, chunk_compression, file>>
    /\ UNCHANGED <<patch, obj>>
    /\ UNCHANGED <<cache, assigned>>

\* A conforming stream that ends early.
Truncate ==
    /\ pc = "written"
    /\ origin = "conforming"
    /\ \E k \in 0..(Len(wire) - 1) : wire' = SubSeq(wire, 1, k)
    /\ origin' = "truncated"
    /\ UNCHANGED <<host, probe, junk, tag, str, ix, pc, res, calls>>
    /\ UNCHANGED <<chunk_tags, chunk_compression, file>>
    /\ UNCHANGED <<patch, obj>>
    /\ UNCHANGED <<cache, assigned>>

\* NBTTag::from_nbt(stream)
FromNbt ==
    /\ pc = "written"
    /\ LET r == from_nbt(wire, FALSE, <<>>, Env)
       IN  /\ res' = [op |-> "from_nbt", st |-> r.st, tag |-> r.tag,
                      rest |-> r.rest, seen |-> r.seen]
           /\ pc' = After(r.st, "done")
    /\ UNCHANGED <<host, probe, junk, tag, str, ix, wire, origin, calls>>
    /\ UNCHANGED <<chunk_tags, chunk_compression, file>>
    /\ UNCHANGED <<patch, obj>>
    /\ UNCHANGED <<cache, assigned>>

\* internal::writestr(stream, s) on a fresh stream
WriteStr ==
    /\ pc = "idle"
    /\ \E i \in 1..Len(Strings) :
         LET w == writestr(OStream, Strings[i], Env)
         IN  /\ str' = Strings[i]
             /\ wire' = w.out
             /\ res' = [op |-> "writestr", st |-> w.st]
             /\ pc' = After(w.st, "strwritten")
    /\ origin' = "writestr"
    /\ UNCHANGED <<host, probe, junk, tag, ix, calls>>
    /\ UNCHANGED <<chunk_tags, chunk_compression, file>>
    /\ UNCHANGED <<patch, obj>>
    /\ UNCHANGED <<cache, assigned>>

\* internal::read_string(stream)
ReadString ==
    /\ pc = "strwritten"
    /\ LET r == read_string(wire, Env)
       IN  /\ res' = [op |-> "read_string", st |-> r.st, str |-> r.str, rest |-> r.rest]
           /\ pc' = After(r.st, "done")
    /\ UNCHANGED <<host, probe, junk, tag, str, ix, wire, origin, calls>>
    /\ UNCHANGED <<chunk_tags, chunk_compression, file>>
    /\ UNCHANGED <<patch, obj>>
    /\ UNCHANGED <<cache, assigned>>

\* write_region_file(path, chunk_tags, chunk_compression)
WriteRegionFile ==
    /\ pc = "idle"
    /\ \E r \in 1..Len(Regions), c \in Schemes :
         LET w == write_region_file(RegionOf(Regions[r]), c, Env)
         IN  /\ chunk_tags' = RegionOf(Regions[r])
             /\ chunk_compression' = c
             /\ file' = w.out
             /\ res' = [op |-> "write_region_file", st |-> w.st]
             /\ pc' = After(w.st, "regionwritten")
    /\ origin' = "write_region_file"
    /\ UNCHANGED <<host, probe, junk, tag, str, ix, wire, calls>>
    /\ UNCHANGED <<patch, obj>>
    /\ UNCHANGED <<cache, assigned>>

\* read_region_file(path) of the file written
ReadRegionFile ==
    /\ pc = "regionwritten"
    /\ LET r == read_region_file(file, Env)
       IN  /\ res' = [op |-> "read_region_file", st |-> r.st, tags |-> r.tags,
                      sought |-> r.sought]
           /\ pc' = After(r.st, "done")
    /\ UNCHANGED <<host, probe, junk, tag, str, ix, wire, origin, calls>>
    /\ UNCHANGED <<chunk_tags, chunk_compression, file>>
    /\ UNCHANGED <<patch, obj>>
    /\ UNCHANGED <<cache, assigned>>

\* write_region_file(path, chunk_tags, chunk_compression) where chunk_tags
\* holds one TAG_COMPOUND, the first chunk of the file, whose body takes n
\* bytes: the call as the positions in the file, the bytes left out.
WriteChunkOfSize ==
    /\ pc = "idle"
    /\ \E n \in BodySizes :
         res' = [op |-> "write_chunk", n |-> n, pos |-> SectorSize,
                 st |-> chunk_positions(SectorSize, n).st,
                 new_pos |-> chunk_positions(SectorSize, n).new_pos,
                 location |-> chunk_positions(SectorSize, n).location]
    /\ origin' = "write_region_file"
    /\ pc' = "done"
    /\ UNCHANGED <<host, probe, junk, tag, str, ix, wire, calls>>
    /\ UNCHANGED <<chunk_tags, chunk_compression, file, patch, obj>>
    /\ UNCHANGED <<cache, assigned>>

\* internal::pad(stream) on a stream that holds n bytes, none of them 0
Pad ==
    /\ pc = "idle"
    /\ \E n \in PadSizes :
         res' = [op |-> "pad", n |-> n, st |-> "ok",
                 bytes |-> pad([st |-> "ok",
                                out |-> SubSeq(SectorOf[1] \o SectorOf[1], 1, n)]).out]
    /\ origin' = "pad"
    /\ pc' = "done"
    /\ UNCHANGED <<host, probe, junk, tag, str, ix, wire, calls>>
    /\ UNCHANGED <<chunk_tags, chunk_compression, file, patch, obj>>
    /\ UNCHANGED <<cache, assigned>>

\* cache.insert_or_lookup(entry), any number of times
InsertOrLookup ==
    /\ pc \in {"idle", "cached"}
    /\ \E entry \in CacheEntries :
         LET r == insert_or_lookup(cache, entry)
         IN  /\ cache' = r.cache
             /\ assigned' = IF Len(r.cache) > Len(cache)
                             THEN Append(assigned, r.index)
                             ELSE assigned
             /\ res' = [op |-> "insert_or_lookup", entry |-> entry, st |-> "ok",
                        index |-> r.index]
    /\ origin' = "insert_or_lookup"
    /\ pc' = "cached"
    /\ UNCHANGED <<host, probe, junk, tag, str, ix, wire, calls>>
    /\ UNCHANGED <<chunk_tags, chunk_compression, file, patch, obj>>

\* The decoder on the first container of a region, whose cache is empty
DecodeContainer ==
    /\ pc = "idle"
    /\ \E c \in Containers :
         \E r \in {decode_container(c.kind, Palette(c.P), Data(c), cache)} :
             /\ cache' = r.cache
             /\ assigned' = assigned \o [k \in 1..(Len(r.cache) - Len(cache)) |-> Len(cache) + k]
             /\ res' = [op |-> "decode", container |-> c, st |-> r.st,
                        out |-> r.out, writes |-> r.writes]
             /\ pc' = After(r.st, "done")
    /\ origin' = "decode"
    /\ UNCHANGED <<host, probe, junk, tag, str, ix, wire, calls>>
    /\ UNCHANGED <<chunk_tags, chunk_compression, file, patch, obj>>

\* A region file from elsewhere: the one written, but for the scheme byte
\* of one chunk.
Patch ==
    /\ pc = "regionwritten"
    /\ patch = NoPatch
    /\ \E i \in Chunks(chunk_tags), s \in PatchSchemes :
         /\ patch' = [at |-> i, scheme |-> s]
         /\ file' = Overwrite(file, ChunkPos(file, i, Env) + 4, <<s>>)
    /\ UNCHANGED <<host, probe, junk, tag, str, ix, wire, origin, pc, res, calls>>
    /\ UNCHANGED <<chunk_tags, chunk_compression, obj>>
    /\ UNCHANGED <<cache, assigned>>

\* NBTTag(type, name, value) by the caller
Construct ==
    /\ pc = "idle"
    /\ \E i \in 1..Len(Objects) : obj' = Objects[i]
    /\ origin' = "constructed"
    /\ pc' = "held"
    /\ UNCHANGED <<host, probe, junk, tag, str, ix, wire, res, calls>>
    /\ UNCHANGED <<chunk_tags, chunk_compression, file, patch>>
    /\ UNCHANGED <<cache, assigned>>

\* The caller keeps the tag from_nbt returned and lets the stream go.
Keep ==
    /\ pc = "done"
    /\ res.op = "from_nbt"
    /\ obj' = res.tag
    /\ origin' = "decoded"
    /\ pc' = "held"
    /\ tag' = DefaultTag
    /\ ix' = 0
    /\ wire' = <<>>
    /\ res' = NoResult
    /\ UNCHANGED <<host, probe, junk, str, calls>>
    /\ UNCHANGED <<chunk_tags, chunk_compression, file, patch>>
    /\ UNCHANGED <<cache, assigned>>

\* obj.get<T>()
Get ==
    /\ pc = "held"
    /\ \E T \in GetTypes :
         res' = [op |-> "get", arg |-> T, st |-> get(obj, T).st,
                 value |-> get(obj, T).value, this |-> obj]
    /\ UNCHANGED <<host, probe, junk, tag, str, ix, wire, origin, pc, calls>>
    /\ UNCHANGED <<chunk_tags, chunk_compression, file, patch, obj>>
    /\ UNCHANGED <<cache, assigned>>

\* obj.at(name), and a look at the tag behind the reference it returns
AtKey ==
    /\ pc = "held"
    /\ \E name \in Keys : \E r \in at(obj, name, Env) :
         res' = [op |-> "at", name |-> name, st |-> r.st, tag |-> r.tag,
                 this |-> r.this, before |-> obj]
    /\ UNCHANGED <<host, probe, junk, tag, str, ix, wire, origin, pc, calls>>
    /\ UNCHANGED <<chunk_tags, chunk_compression, file, patch, obj>>
    /\ UNCHANGED <<cache, assigned>>

\* obj[name], and a look at the tag behind the reference it returns; the
\* caller catches what it throws and keeps obj.
Index ==
    /\ pc = "held"
    /\ \E name \in Keys : \E r \in operator_index(obj, name, Env) :
         /\ res' = [op |-> "operator[]", name |-> name, st |-> r.st, tag |-> r.tag,
                    this |-> r.this, before |-> obj]
         /\ obj' = r.this
    /\ UNCHANGED <<host, probe, junk, tag, str, ix, wire, origin, pc, calls>>
    /\ UNCHANGED <<chunk_tags, chunk_compression, file, patch>>
    /\ UNCHANGED <<cache, assigned>>

\* obj.contains(key)
Contains ==
    /\ pc = "held"
    /\ \E key \in Keys :
         res' = [op |-> "contains", key |-> key, st |-> contains(obj, key).st,
                 found |-> contains(obj, key).value, this |-> obj]
    /\ UNCHANGED <<host, probe, junk, tag, str, ix, wire, origin, pc, calls>>
    /\ UNCHANGED <<chunk_tags, chunk_compression, file, patch, obj>>
    /\ UNCHANGED <<cache, assigned>>

\* is_little_endian() calls is_little_endian()
ProbeCall ==
    /\ pc = "probe"
    /\ \/ probe = "loops" /\ calls' = (calls + 1) % (MaxCalls + 1)
       \/ probe = "overflows" /\ calls < MaxCalls /\ calls' = calls + 1
    /\ UNCHANGED <<host, probe, junk, tag, str, ix, wire, origin, pc, res>>
    /\ UNCHANGED <<chunk_tags, chunk_compression, file>>
    /\ UNCHANGED <<patch, obj>>
    /\ UNCHANGED <<cache, assigned>>

\* The call of is_little_endian that finds no stack left: the process is
\* killed (SIGSEGV).
StackOverflow ==
    /\ pc = "probe"
    /\ probe = "overflows"
    /\ calls = MaxCalls
    /\ res' = [res EXCEPT !.st = "abort"]
    /\ pc' = "failed"
    /\ UNCHANGED <<host, probe, junk, tag, str, ix, wire, origin, calls>>
    /\ UNCHANGED <<chunk_tags, chunk_compression, file>>
    /\ UNCHANGED <<patch, obj>>
    /\ UNCHANGED <<cache, assigned>>

Next ==
    \/ ToNbt
    \/ ToNbtVector
    \/ Conforming
    \/ Crafted
    \/ Truncate
    \/ FromNbt
    \/ WriteStr
    \/ ReadString
    \/ WriteRegionFile
    \/ ReadRegionFile
    \/ WriteChunkOfSize
    \/ Pad
    \/ InsertOrLookup
    \/ DecodeContainer
    \/ Patch
    \/ Construct
    \/ Keep
    \/ Get
    \/ AtKey
    \/ Index
    \/ Contains
    \/ ProbeCall
    \/ StackOverflow

Spec == Init /\ [][Next]_vars

\* Every other call is one step; a call inside is_little_endian takes its
\* next step.
FairSpec == Spec /\ WF_vars(ProbeCall \/ StackOverflow)

-----------------------------------------------------------------------------
(* The claims of the specification, as properties of the model.            *)

\* The build is one whose is_little_endian() returns.
ProbeReturns == Returns(Env)

ArrayKinds == {TAG_BYTEARRAY, TAG_INTARRAY, TAG_LONGARRAY}

\* The wire length n of a list, given by its 4 bytes, is zero or negative.
NonPositive(n) == n[1] >= 128 \/ n = <<0, 0, 0, 0>>

\* C1: a well-formed tag written by to_nbt(ostream) and read back by
\* from_nbt(istream) comes back as a tag equal to it: the decode succeeds
\* and kind, name and value agree at every node.
C1_RoundTrip ==
    (ProbeReturns /\ origin = "to_nbt" /\ res.op = "from_nbt")
        => (res.st = "ok" /\ TagEq(res.tag, tag))

\* C2: read_region_file of the file write_region_file made of 1024 tags
\* with gzip, zlib or no compression returns, at each index, a tag equal to
\* the one given where that is a Compound and the marker of an absent chunk
\* where it is not.
C2_RegionRoundTrip ==
    (ProbeReturns /\ res.op = "read_region_file"
     /\ chunk_compression \in {GZIP, ZLIB, NOTHING})
        => (/\ res.st = "ok"
            /\ \A i \in 1..RegionChunks :
                   IF IsChunk(chunk_tags[i])
                   THEN TagEq(res.tags[i], chunk_tags[i])
                   ELSE res.tags[i] = EmptyChunk)

\* C3: to_nbt of a named Int writes the kind byte 3, the length of the name
\* as 2 bytes big-endian, the name and the 4 bytes of the value big-endian
\* (Int "x" = -1 gives 03 00 01 78 FF FF FF FF), and from_nbt of those bytes
\* reproduces the tag.
C3_NamedInt ==
    /\ (ProbeReturns /\ res.op = "to_nbt" /\ tag.type = TAG_INT /\ tag.name # <<>>)
           => (res.st = "ok"
               /\ wire = <<TAG_INT>> \o BE16(Len(tag.name)) \o tag.name \o tag.value)
    /\ (ProbeReturns /\ origin = "conforming" /\ res.op = "from_nbt"
        /\ tag.type = TAG_INT /\ tag.name # <<>>)
           => (res.st = "ok" /\ TagEq(res.tag, tag))

\* C4: to_nbt of a list writes the element kind, the length and then the
\* bare payload of each element, no kind byte and no name per element:
\* Compound "r" holding List "l" of the Bytes 1, 2, 3 is written as
\* 0A 00 01 72 09 00 01 6C 01 00 00 00 03 01 02 03 00.
C4_ListPayloads ==
    (ProbeReturns /\ res.op = "to_nbt"
     /\ tag = NBTTag(TAG_COMPOUND, NameR, "tags",
                     <<NBTTag(TAG_ARRAY, NameL, "tags",
                              <<ByteElem(1), ByteElem(2), ByteElem(3)>>)>>))
        => (res.st = "ok"
            /\ wire = <<10, 0, 1, 114, 9, 0, 1, 108, 1, 0, 0, 0, 3, 1, 2, 3, 0>>)

\* C5: from_nbt of a ByteArray, IntArray or LongArray of n >= 0 elements
\* returns a tag of that kind whose value is the n elements of the wire in
\* order, and has then consumed the header and 4 + n * element size bytes.
C5_TypedArrays ==
    (ProbeReturns /\ origin = "conforming" /\ res.op = "from_nbt"
     /\ tag.type \in ArrayKinds)
        => (/\ res.st = "ok"
            /\ res.tag.type = tag.type
            /\ res.tag.value = tag.value
            /\ Len(wire) - Len(res.rest)
                 = 3 + Len(tag.name) + 4 + Len(tag.value) * ElementSize(tag.type))

\* C6: from_nbt of a list whose wire length is zero or negative returns,
\* without an error, an empty list that records the element kind k of the
\* wire, k = End with length 0 included.
C6_EmptyList ==
    (ProbeReturns /\ origin = "malformed" /\ res.op = "from_nbt"
     /\ Malformed[ix].class = "list" /\ NonPositive(Malformed[ix].n))
        => (/\ res.st = "ok"
            /\ res.tag.type = TAG_ARRAY
            /\ res.tag.alt = "tags"
            /\ res.tag.value = <<>>
            /\ ElementKind(res.tag) = Malformed[ix].k)

\* C7: a from_nbt that has entered its switch with a kind outside
\* 0x01..0x0C, at the top level or anywhere below it, has ended with an
\* error and has returned no tag.
C7_IllegalKind ==
    (res.op = "from_nbt" /\ \E i \in 1..Len(res.seen) : res.seen[i] \notin 1..12)
        => (res.st = "error" /\ res.tag = DefaultTag)

\* from_nbt has met an illegal kind: at the top level (End, 13, 255), as the
\* element kind of a list that has elements, and below a compound.
C7_Witness ==
    /\ origin = "malformed"
    /\ res.op = "from_nbt"
    /\ res.st = "error"
    /\ Len(res.seen) > 1
    /\ res.seen[Len(res.seen)] \notin 1..12

\* C8: from_nbt of a stream that ends before the tag is complete fails with
\* an error and returns no tag, never one made of bytes it did not read.
C8_Truncated ==
    (ProbeReturns /\ origin = "truncated" /\ res.op = "from_nbt")
        => (res.st = "error" /\ res.tag = DefaultTag)

\* C9: every call completes or fails after finitely many steps: a call
\* that has entered the host-endianness probe gets out of it and ends.
C9_Terminates == (pc = "probe") ~> (pc \in {"done", "failed"})

\* C10: writestr emits the length of the string as 2 bytes big-endian and
\* then its bytes, 2 + n bytes in all, and read_string of those bytes
\* returns the string.
C10_StringRoundTrip ==
    /\ (ProbeReturns /\ res.op = "writestr")
           => (res.st = "ok" /\ wire = BE16(Len(str)) \o str)
    /\ (ProbeReturns /\ res.op = "read_string")
           => (res.st = "ok" /\ res.str = str /\ res.rest = <<>>)

\* C11: get<T>() on a tag returns the value the tag holds when the kind of
\* the tag is the kind of T, and fails with the accessor's error when it is
\* not; the tag is the same after the call.
C11_TypedGet ==
    (res.op = "get")
        => (/\ res.this = obj
            /\ IF obj.type = GetKind(res.arg)
               THEN res.st = "ok" /\ res.value = obj.value
               ELSE res.st = "error")

\* C12: at(name) on a Compound returns the first child, in child order,
\* whose name is name, and fails when there is none; on a tag that is no
\* Compound it fails; the tag and its children are the same after the call.
C12_StrictLookup ==
    (res.op = "at")
        => (/\ res.this = res.before
            /\ IF res.before.type = TAG_COMPOUND /\ Find(res.before.value, res.name) # 0
               THEN /\ res.st = "ok"
                    /\ TagEq(res.tag, res.before.value[Find(res.before.value, res.name)])
               ELSE res.st = "error")

\* C13: operator[](name) on a Compound does not fail: with a child of that
\* name it returns the first such child and leaves the children as they
\* were; with none it appends one child, Byte 0 named name, and returns it.
\* On a tag that is no Compound it fails.
C13_LenientLookup ==
    (res.op = "operator[]")
        => IF res.before.type = TAG_COMPOUND
           THEN /\ res.st = "ok"
                /\ IF Find(res.before.value, res.name) # 0
                   THEN /\ res.this = res.before
                        /\ TagEq(res.tag, res.before.value[Find(res.before.value, res.name)])
                   ELSE /\ Len(res.this.value) = Len(res.before.value) + 1
                        /\ SubSeq(res.this.value, 1, Len(res.before.value)) = res.before.value
                        /\ TagEq(res.this.value[Len(res.this.value)],
                                 NBTTag(TAG_BYTE, res.name, "char", <<0>>))
                        /\ TagEq(res.tag, res.this.value[Len(res.this.value)])
           ELSE res.st = "error"

\* C14: on a Compound that from_nbt returned, with or without children
\* operator[] has appended since, contains(k) is true only if exactly one
\* child has the name k.
C14_UniqueNames ==
    (origin = "decoded" /\ res.op = "contains" /\ res.st = "ok" /\ res.found)
        => Cardinality({i \in 1..Len(res.this.value) : res.this.value[i].name = res.key}) = 1

\* C15: at every index 0..1023 whose entry of the locations table has
\* offset 0, read_region_file does no seek and no read of a payload, and
\* the array it returns holds there the marker of an absent chunk: a Byte
\* tag named "EmptyChunk" with value 0, which is no Compound.
C15_AbsentMarker ==
    (res.op = "read_region_file")
        => \A i \in 0..(RegionChunks - 1) :
               (At(file, 4 * i, 3) = <<0, 0, 0>>)
                   => (/\ i \notin res.sought
                       /\ (res.st = "ok")
                            => (/\ res.tags[i + 1].type = TAG_BYTE
                                /\ res.tags[i + 1].type # TAG_COMPOUND
                                /\ res.tags[i + 1].name
                                     = <<69, 109, 112, 116, 121, 67, 104, 117, 110, 107>>
                                /\ Len(res.tags[i + 1].value) > 0
                                /\ \A b \in 1..Len(res.tags[i + 1].value) :
                                       res.tags[i + 1].value[b] = 0))

\* read_region_file has returned the chunks of a file that holds chunks at
\* some indices, which it sought, and none at others, index 42 among them.
C15_Witness ==
    /\ res.op = "read_region_file"
    /\ res.st = "ok"
    /\ res.sought # {}
    /\ At(file, 4 * 42, 3) = <<0, 0, 0>>
    /\ 42 \notin res.sought
    /\ res.tags[43] = EmptyChunk

\* The file is as write_region_file left it, having returned, in a build
\* whose is_little_endian() returns.
Written ==
    ProbeReturns /\ res.op = "write_region_file" /\ res.st = "ok" /\ patch = NoPatch

\* read_region_file has read a file in which the scheme byte of the first
\* chunk it comes to was set by hand.
FirstChunkPatched ==
    /\ ProbeReturns
    /\ res.op = "read_region_file"
    /\ patch # NoPatch
    /\ patch.at = NextChunk(Chunks(chunk_tags), 0)

\* C16: the scheme byte of a chunk selects how read_region_file decodes it:
\* 1 gzip, 2 zlib, 3 no compression (so that a payload framed otherwise is
\* refused by the decoder); 4 and 127 fail with Unsupported; every other
\* value fails with an error of another kind, InvalidScheme.
C16_SchemeSelects ==
    FirstChunkPatched
        => CASE patch.scheme \in {GZIP, ZLIB, NOTHING} ->
                  /\ res.st # "unsupported"
                  /\ (patch.scheme # chunk_compression) => (res.st = "error")
             [] patch.scheme \in {LZ4, CUSTOM} -> res.st = "unsupported"
             [] OTHER -> res.st \notin {"ok", "unsupported"}

\* C17: read_region_file of a file with a chunk of scheme 4 reports
\* Unsupported for that chunk and still delivers the others: at every other
\* index the tag of the chunk written there, or the marker of an absent
\* chunk.
C17_OtherChunksKept ==
    (ProbeReturns /\ res.op = "read_region_file" /\ patch # NoPatch /\ patch.scheme = LZ4)
        => (/\ res.st = "unsupported"
            /\ Len(res.tags) = RegionChunks
            /\ \A i \in (0..(RegionChunks - 1)) \ {patch.at} :
                   IF IsChunk(chunk_tags[i + 1])
                   THEN TagEq(res.tags[i + 1], chunk_tags[i + 1])
                   ELSE TagEq(res.tags[i + 1], EmptyChunk))

\* The number the 3 bytes of an offset stand for, most significant first.
SectorNumber(o) == (o[1] * 256 + o[2]) * 256 + o[3]

\* C18: a file write_region_file has written begins with a header of two
\* sectors, the locations table and behind it the timestamps table, 8192
\* bytes, and the start sector its locations table records, big-endian,
\* for a chunk is 2 or more.
C18_Header ==
    Written
        => (/\ Len(file) >= 2 * SectorSize
            /\ \A i \in Chunks(chunk_tags) : SectorNumber(At(file, 4 * i, 3)) >= 2)

\* The bytes the switch of write_region_file writes for chunk i (from 0):
\* the payload, compressed as chunk_compression says.
BodyOf(i) ==
    write_chunk_body(OStream, to_nbt(OStream, chunk_tags[i + 1], Env), chunk_compression).out

\* C19: the length field of every chunk write_region_file has written is 1,
\* for the scheme byte, plus the number of bytes of the compressed payload;
\* its own 4 bytes are not counted.
C19_LengthField ==
    Written
        => \A i \in Chunks(chunk_tags) :
               read(At(file, ChunkPos(file, i, Env), 4), TAG_INT, Env).num
                   = U32(1 + Len(BodyOf(i)))

\* The sectors a chunk of so many bytes takes once padded: its padded size
\* divided by 4096.
Sectors(bytes) == (bytes + SectorSize - 1) \div SectorSize

\* C20: the sector count write_region_file records for a chunk is the
\* padded size of the chunk (4 bytes of length, the scheme byte and the
\* payload, padded to a sector boundary) divided by 4096, and a chunk that
\* needs more than 255 sectors makes the write fail.
C20_SectorCount ==
    /\ Written
          => \A i \in Chunks(chunk_tags) :
                 ReadLocation(file, i, Env)[4] = Sectors(5 + Len(BodyOf(i)))
    /\ (res.op = "write_chunk")
          => IF Sectors(5 + res.n) > 255
             THEN res.st # "ok"
             ELSE res.st = "ok" /\ res.location[4] = Sectors(5 + res.n)

\* The sector at which chunk i (from 0) lies in the file: its scheme byte
\* and the bytes of its body stand there behind the 4 bytes of the length.
\* 0 if there is no such sector.
LiesAt(i, sec) ==
    At(file, sec * SectorSize + 4, 1 + Len(BodyOf(i))) = <<chunk_compression>> \o BodyOf(i)

StartSector(i) ==
    IF \E sec \in 1..(Len(file) \div SectorSize) : LiesAt(i, sec)
    THEN CHOOSE sec \in 1..(Len(file) \div SectorSize) : LiesAt(i, sec)
    ELSE 0

\* C21: after write_region_file has returned, the locations entry of index
\* i is zero exactly when chunk_tags[i] is not a Compound; for a Compound
\* it is (start sector << 8) | sector_count, stored most significant byte
\* first, the start sector being where the chunk lies and the count the
\* sectors from there to the end of its padding; and the length of the
\* file is a multiple of 4096.
C21_Locations ==
    /\ Written
          => /\ Len(file) % SectorSize = 0
             /\ \A i \in 0..(RegionChunks - 1) :
                    IF IsChunk(chunk_tags[i + 1])
                    THEN /\ StartSector(i) # 0
                         /\ At(file, 4 * i, 4)
                              = U32(StartSector(i) * 256 + Sectors(5 + Len(BodyOf(i))))
                    ELSE At(file, 4 * i, 4) = <<0, 0, 0, 0>>
    /\ (res.op = "write_chunk" /\ res.st = "ok")
          => res.location
                = U32((res.pos \div SectorSize) * 256 + (res.new_pos - res.pos) \div SectorSize)

\* The sectors the locations entry of index i claims for its chunk, as
\* read_region_file takes the entry: count of them from the offset on.
SectorRange(i) ==
    LET from == ChunkPos(file, i, Env) \div SectorSize
    IN  from .. (from + ReadLocation(file, i, Env)[4] - 1)

\* C22: after write_region_file has returned, every chunk it wrote starts
\* on a 4096-byte boundary, where its locations entry resolves to (offset *
\* 4096 is where its length field starts, its scheme byte and body behind
\* it), and the sector ranges of two chunks have no sector in common; the
\* position the next chunk would start at is a sector boundary behind the
\* sectors recorded for this one.
C22_Layout ==
    /\ Written
          => /\ \A i \in Chunks(chunk_tags) :
                    /\ ChunkPos(file, i, Env) % SectorSize = 0
                    /\ ChunkPos(file, i, Env) >= SectorSize
                    /\ LiesAt(i, ChunkPos(file, i, Env) \div SectorSize)
             /\ \A i, j \in Chunks(chunk_tags) :
                    i # j => SectorRange(i) \cap SectorRange(j) = {}
    /\ (res.op = "write_chunk" /\ res.st = "ok")
          => /\ res.pos % SectorSize = 0
             /\ res.new_pos % SectorSize = 0
             /\ res.new_pos >= res.pos + 5 + res.n
             /\ res.new_pos >= res.pos + res.location[4] * SectorSize

\* write_region_file has written three chunks and returned.
C22_Witness ==
    Written /\ Cardinality(Chunks(chunk_tags)) = 3 /\ Len(file) = 4 * SectorSize

\* C23: write_region_file with scheme LZ4 (4) or CUSTOM (127) is refused
\* with the error of an unsupported compression type whatever the array of
\* chunk tags, also one without any Compound; it returns only for GZIP (1),
\* ZLIB (2) and NOTHING (3).
C23_WriteRefused ==
    (ProbeReturns /\ res.op = "write_region_file")
        => /\ (chunk_compression \in {LZ4, CUSTOM}) => (res.st = "unsupported")
           /\ (res.st = "ok") => (chunk_compression \in {GZIP, ZLIB, NOTHING})

\* C24: write_region_file reserves the locations table with 4096 zero bytes
\* and writes the table itself as its last step; so after a call that
\* failed with an exception on the way the first 4096 bytes of the file are
\* all zero, and no locations entry points at a chunk.
C24_ReservedZero ==
    (res.op = "write_region_file" /\ res.st \in {"error", "unsupported", "bad_variant_access"})
        => /\ Len(file) >= SectorSize
           /\ SubSeq(file, 1, SectorSize) = SectorOf[0]

\* The builds for the host of the other byte order in which
\* is_little_endian() returns, the memory being what it is here.
OtherHost ==
    {[host |-> h, probe |-> p, junk |-> junk] : h \in Hosts \ {host}, p \in {"true", "false"}}

\* C25: the bytes to_nbt writes for a tag are the same on a little-endian
\* and on a big-endian host, and so are the bytes of a region file with its
\* locations entries: every number of more than one byte is written most
\* significant byte first in both runs.
C25_HostIndependent ==
    /\ (res.op = "to_nbt" /\ res.st = "ok")
          => /\ wire = WireOf(tag)
             /\ \A e \in OtherHost : to_nbt(OStream, tag, e) = [st |-> "ok", out |-> wire]
    /\ Written
          => \A e \in OtherHost :
                 write_region_file(chunk_tags, chunk_compression, e) = [st |-> "ok", out |-> file]

\* Tags made of scalars, strings, typed arrays, lists and compounds, each
\* holding the alternative of its kind.
ListInputs == {Encodable[i] : i \in 1..(Len(Tags) + Len(Mixed(NameL)))}

RECURSIVE HasMixedList(_)
\* t is, or holds somewhere below it, a list one of whose elements is not
\* of the kind of its first element.
HasMixedList(t) ==
    /\ t.alt = "tags"
    /\ \/ /\ t.type = TAG_ARRAY
          /\ \E i \in 1..Len(t.value) : t.value[i].type # t.value[1].type
       \/ \E i \in 1..Len(t.value) : HasMixedList(t.value[i])

\* C26: encoding a list whose elements are not all of the kind of its
\* first element ends the process (throw with no exception in flight); a
\* list is encoded only when every element is of that kind, and the
\* element-kind byte written is End exactly when the list is empty.  Both
\* encoders; for the one to a stream in a build whose writes return.
C26_ListKinds ==
    (/\ res.op \in {"to_nbt", "to_nbt_vector"}
     /\ (res.op = "to_nbt") => ProbeReturns
     /\ tag \in ListInputs)
        => /\ HasMixedList(tag) => (res.st = "abort")
           /\ (res.st = "ok") => ~HasMixedList(tag)
           /\ (res.st = "ok" /\ tag.type = TAG_ARRAY)
                 => ((wire[4 + Len(tag.name)] = TAG_END) <=> (tag.value = <<>>))

\* to_nbt(stream) was called on a compound that holds a list of a String
\* and a Byte, and the process was ended.
C26_Witness ==
    /\ res.op = "to_nbt"
    /\ ProbeReturns
    /\ tag.type = TAG_COMPOUND
    /\ HasMixedList(tag)
    /\ res.st = "abort"

\* C30: the two encoders agree: for a tag one of them encodes, the vector
\* of bytes to_nbt() returns is the sequence of bytes to_nbt(stream)
\* writes, for every kind, lists and typed arrays below compounds included.
C30_EncodersAgree ==
    ProbeReturns
        => /\ (res.op = "to_nbt" /\ res.st = "ok")
                 => to_nbt_vector(tag) = [st |-> "ok", out |-> wire]
           /\ (res.op = "to_nbt_vector" /\ res.st = "ok")
                 => to_nbt(OStream, tag, Env) = [st |-> "ok", out |-> wire]

\* C29: internal::pad appends zero bytes only, and the fewest that bring
\* the stream to a 4096-byte boundary: from 0 to 4095 of them, none when
\* the position is a multiple of 4096 already; hence the sector count of a
\* chunk is its unpadded size divided by 4096, rounded up.
C29_PadMinimal ==
    /\ (res.op = "pad")
          => /\ Len(res.bytes) % SectorSize = 0
             /\ Len(res.bytes) - res.n \in 0..(SectorSize - 1)
             /\ (res.n % SectorSize = 0) => (Len(res.bytes) = res.n)
             /\ \A k \in 1..Len(res.bytes) : res.bytes[k] = (IF k <= res.n THEN 1 ELSE 0)
    /\ (res.op = "write_chunk" /\ res.st = "ok" /\ Sectors(5 + res.n) <= 255)
          => /\ res.new_pos - (res.pos + 5 + res.n) \in 0..(SectorSize - 1)
             /\ res.location[4] = Sectors(5 + res.n)

\* C27: over any sequence of insert_or_lookup calls on a region cache the
\* index returned for an entry is its zero-based position (0 for the first
\* entry inserted), the index returned for an entry already present is the
\* one returned when it was inserted, and the index of an entry never
\* changes: the k-th entry inserted has index k - 1 for good.
C27_CacheIndices ==
    /\ Len(assigned) = Len(cache)
    /\ \A k \in 1..Len(cache) : assigned[k] = k - 1
    /\ (res.op = "insert_or_lookup")
          => /\ res.index = Position(cache, res.entry) - 1
             /\ res.index = assigned[Position(cache, res.entry)]

\* The indices the data of the container decoded hold, one for each output
\* position; a palette of one entry has no data, and every position holds
\* that entry.
Held ==
    IF res.container.P = 1
    THEN [i \in 1..OutputCount(res.container.kind) |-> 0]
    ELSE Extracted(res.container.kind, res.container.P, Data(res.container))

\* C28: for a container with a palette of P >= 1 entries and data words
\* enough, the decoder gives exactly N output indices (4096 for blocks, 64
\* for biomes) and writes each output position exactly once, also where a
\* biome index lies in two words; and when an index it extracts is P or
\* more it fails with PaletteOutOfRange and does not emit it.
C28_DecoderOutput ==
    (res.op = "decode")
        => \A held \in {Held} :
             IF res.container.P > 1 /\ \E i \in 1..Len(held) : held[i] >= res.container.P
             THEN /\ res.st = "PaletteOutOfRange"
                  /\ Len(res.out) < OutputCount(res.container.kind)
                  /\ \A i \in 1..Len(res.out) : held[i] < res.container.P
             ELSE /\ res.st = "ok"
                  /\ Len(res.out) = OutputCount(res.container.kind)
                  /\ Len(res.writes) = OutputCount(res.container.kind)
                  /\ \A i \in 1..Len(res.writes) : res.writes[i] = 1

====
